---- MODULE Spec2Model ----
(***************************************************************************)
(* Model of the token-balance aggregation of farcaster-wallet-search:      *)
(* fetchUserTokenBalances in src/lib/neynar.ts.  One call is followed      *)
(* through its suspension points: the upstream balance fetch, and the      *)
(* parallel logo lookups; the synchronous code between two suspension      *)
(* points is one action.  The callers of its result are modelled too: the  *)
(* share-image route (src/app/api/generate-share-image/route.tsx) and the  *)
(* TokenBalances component (src/components/TokenBalances.tsx); and two     *)
(* calls running concurrently, with one step per logo lookup.              *)
(* Further entry points, each with a specification of its own: the search  *)
(* route (src/app/api/search/route.ts) with the input validation, the      *)
(* user searches of src/lib/neynar.ts with their REST fallback, the token  *)
(* image cache (src/lib/r2.ts), the AddressInput component, and the        *)
(* TokenBalances component under changing props.                           *)
(*                                                                         *)
(* JavaScript values are modelled as follows.                              *)
(*   string     a TLA+ string; toLowerCase, includes, parseFloat and       *)
(*              Number.prototype.toString are computed character by        *)
(*              character.                                                 *)
(*   number     a record [nan, w, n]: NaN, or the exact decimal            *)
(*              w + n / 10^9 with 0 <= n < 10^9 (w may be negative).       *)
(*              Token quantities of the model are whole numbers.           *)
(*   T | undefined   the sequence << >> (undefined) or << x >>.            *)
(***************************************************************************)
EXTENDS Integers, Sequences, FiniteSets, TLC

VARIABLES
  pc,               \* where the call is: "start", "logos" or "done"
  fid,              \* the fid argument
  bankrAddresses,   \* the bankrAddresses argument
  response,         \* what client.fetchUserBalance resolved with
  thrown,           \* what client.fetchUserBalance rejected with
  aggregatedTokens, \* the local aggregatedTokens
  result,           \* the TokenBalanceResult returned
  shareImage,       \* what the share-image route has rendered
  component,        \* the state of a TokenBalances component
  calls,            \* two concurrent calls of fetchUserTokenBalances
  search,           \* a POST /api/search request
  userSearch,       \* a call of searchUsersByAddresses or searchUsersByFIDs
  r2,               \* the R2 bucket and the calls of getTokenImageUrl
  addressInput,     \* the state of an AddressInput component
  balanceView       \* a TokenBalances component whose props change

\* the state of the entry points other than the balance call and its callers
entries == <<search, userSearch, r2, addressInput, balanceView>>

vars == <<pc, fid, bankrAddresses, response, thrown, aggregatedTokens, result,
          shareImage, component, calls, entries>>

-----------------------------------------------------------------------------
(* Strings *)

UpperChars == "ABCDEFGHIJKLMNOPQRSTUVWXYZ"
LowerChars == "abcdefghijklmnopqrstuvwxyz"

\* String.prototype.toLowerCase on one character (ASCII letters)
LowerOf == [c \in { SubSeq(UpperChars, i, i) : i \in 1..26 } |->
              LET i == CHOOSE j \in 1..26 : SubSeq(UpperChars, j, j) = c
              IN  SubSeq(LowerChars, i, i)]

LowerChar(c) == IF c \in DOMAIN LowerOf THEN LowerOf[c] ELSE c

\* String.prototype.toLowerCase: each character's lower case, in order
RECURSIVE ToLowerCase(_)
ToLowerCase(s) ==
  IF Len(s) = 0 THEN ""
  ELSE IF Len(s) = 1 THEN LowerChar(s)
  ELSE ToLowerCase(SubSeq(s, 1, Len(s) \div 2))
         \o ToLowerCase(SubSeq(s, (Len(s) \div 2) + 1, Len(s)))

\* String.prototype.includes
Includes(s, sub) ==
  \E i \in 1..(Len(s) - Len(sub) + 1) : SubSeq(s, i, i + Len(sub) - 1) = sub

Digits == "0123456789"

DigitOf == [c \in { SubSeq(Digits, i, i) : i \in 1..10 } |->
              (CHOOSE j \in 1..10 : SubSeq(Digits, j, j) = c) - 1]

IsDigit(c) == c \in DOMAIN DigitOf

DigitValue(c) == DigitOf[c]

-----------------------------------------------------------------------------
(* Numbers *)

NANO == 10^9

Num(w, n) == [nan |-> FALSE, w |-> w, n |-> n]
Int2Num(i) == Num(i, 0)
NaN == [nan |-> TRUE, w |-> 0, n |-> 0]
Zero == Int2Num(0)

\* a + b of two numbers
NumAdd(a, b) ==
  IF a.nan \/ b.nan THEN NaN
  ELSE Num(a.w + b.w + ((a.n + b.n) \div NANO), (a.n + b.n) % NANO)

\* a > b, a < b (false when either is NaN)
NumGt(a, b) ==
  /\ ~a.nan /\ ~b.nan
  /\ \/ a.w > b.w
     \/ a.w = b.w /\ a.n > b.n
NumLt(a, b) == NumGt(b, a)

\* ToBoolean of a number: 0 and NaN are falsy
Truthy(a) == ~a.nan /\ ~(a.w = 0 /\ a.n = 0)

\* x || 0
OrZero(a) == IF Truthy(a) THEN a ELSE Zero

\* the number of digits of s from its i-th character on, up to the first
\* character that is none
RECURSIVE DigitRun(_, _)
DigitRun(s, i) ==
  IF i <= Len(s) /\ IsDigit(SubSeq(s, i, i)) THEN 1 + DigitRun(s, i + 1) ELSE 0

\* the value of the first k characters of s, all digits
RECURSIVE DigitsValue(_, _)
DigitsValue(s, k) ==
  IF k = 0 THEN 0
  ELSE 10 * DigitsValue(s, k - 1) + DigitValue(SubSeq(s, k, k))

\* parseFloat on strings without a fraction or an exponent: an optional sign,
\* then the longest run of digits; NaN when there is no digit.
ParseFloat(s) ==
  LET neg  == Len(s) > 0 /\ SubSeq(s, 1, 1) = "-"
      body == IF neg THEN SubSeq(s, 2, Len(s)) ELSE s
      k    == DigitRun(body, 1)
  IN  IF k = 0 THEN NaN
      ELSE LET v == DigitsValue(body, k)
           IN  Int2Num(IF neg THEN 0 - v ELSE v)

RECURSIVE NatToString(_)
NatToString(i) ==
  IF i < 10 THEN SubSeq(Digits, i + 1, i + 1)
  ELSE NatToString(i \div 10) \o SubSeq(Digits, (i % 10) + 1, (i % 10) + 1)

\* Number.prototype.toString of a whole number, or of NaN
NumberToString(a) ==
  IF a.nan THEN "NaN"
  ELSE IF a.w < 0 THEN "-" \o NatToString(0 - a.w)
  ELSE NatToString(a.w)

\* a * b for a whole number a and a decimal b = bn / 10^9 with 0 <= b < 1
NumMulNano(a, bn) ==
  IF a.nan THEN NaN
  ELSE Num((a.w * bn) \div NANO, (a.w * bn) % NANO)

\* value / balance > limit, for a whole balance > 0 and a whole limit
QuotientExceeds(value, balance, limit) ==
  /\ ~value.nan
  /\ \/ value.w \div balance.w > limit
     \/ /\ value.w \div balance.w = limit
        /\ (value.w % balance.w > 0 \/ value.n > 0)

-----------------------------------------------------------------------------
(* Optional values: << >> is undefined, << x >> is x *)

Undefined == << >>
Some(x) == << x >>

\* s || d for an optional string s
StrOr(s, d) == IF s = Undefined \/ s[1] = "" THEN d ELSE s[1]

\* o?.f for an optional record o
Field(o, f) == IF o = Undefined THEN Undefined ELSE o[1][f]

\* A JavaScript value that is a number or a string
JsNumber(a) == [t |-> "number", num |-> a, str |-> ""]
JsString(s) == [t |-> "string", num |-> Zero, str |-> s]

\* v.toString()
JsToString(v) == IF v.t = "number" THEN NumberToString(v.num) ELSE v.str

-----------------------------------------------------------------------------
(* fetchUserTokenBalances: flattening and mapping *)

\* the TokenBalance built from one record of token_balances
mappedToken(tokenBalance) ==
  LET token   == tokenBalance.token
      balance == tokenBalance.balance
      in_token == Field(balance, "in_token")
      in_usdc  == Field(balance, "in_usdc")
  IN  [ token_address |-> StrOr(Field(token, "contract_address"), "native"),
        token_name    |-> StrOr(Field(token, "name"),
                                StrOr(Field(token, "symbol"), "Unknown")),
        token_symbol  |-> StrOr(Field(token, "symbol"), "UNKNOWN"),
        balance       |-> IF in_token = Undefined \/ JsToString(in_token[1]) = ""
                          THEN "0" ELSE JsToString(in_token[1]),
        value_usd     |-> IF in_usdc = Undefined THEN Zero ELSE OrZero(in_usdc[1]),
        logo_url      |-> Undefined ]

\* the tokens of one entry of address_balances, in order
MapTokenBalances(addressBalance) ==
  LET tokenBalances == IF addressBalance.token_balances = Undefined
                       THEN << >> ELSE addressBalance.token_balances[1]
  IN  [i \in 1..Len(tokenBalances) |-> mappedToken(tokenBalances[i])]

RECURSIVE Flatten(_)
Flatten(addressBalances) ==
  IF addressBalances = << >> THEN << >>
  ELSE MapTokenBalances(Head(addressBalances)) \o Flatten(Tail(addressBalances))

\* fetchTokenBalancesForAddresses: nothing is fetched for any address
fetchTokenBalancesForAddresses(addresses) == << >>

\* allTokens: the verified addresses' tokens, then the Bankr wallets' tokens
allTokensOf(addressBalances, bankr) ==
  Flatten(addressBalances)
    \o (IF Len(bankr) > 0 THEN fetchTokenBalancesForAddresses(bankr) ELSE << >>)

-----------------------------------------------------------------------------
(* fetchUserTokenBalances: aggregation by contract address *)

\* the position in groups of the entry with this key, 0 when there is none
GroupIndex(groups, key) ==
  LET found == { i \in 1..Len(groups) : ToLowerCase(groups[i].token_address) = key }
  IN  IF found = {} THEN 0 ELSE CHOOSE i \in found : TRUE

\* one iteration of the loop, with the address as it came in for key
MergeTokenCaseSensitive(groups, token) ==
  LET found == { i \in 1..Len(groups) : groups[i].token_address = token.token_address }
  IN  IF found # {}
      THEN LET i == CHOOSE j \in found : TRUE
           IN  [groups EXCEPT
                  ![i].balance = NumberToString(NumAdd(OrZero(ParseFloat(groups[i].balance)),
                                                       OrZero(ParseFloat(token.balance)))),
                  ![i].value_usd = NumAdd(OrZero(groups[i].value_usd),
                                          OrZero(token.value_usd))]
      ELSE Append(groups, token)

\* one iteration of the loop, with the key stored as the group's address
MergeTokenStoresKey(groups, token) ==
  LET key == ToLowerCase(token.token_address)
      i   == GroupIndex(groups, key)
  IN  IF i > 0
      THEN [groups EXCEPT
              ![i].balance = NumberToString(NumAdd(OrZero(ParseFloat(groups[i].balance)),
                                                   OrZero(ParseFloat(token.balance)))),
              ![i].value_usd = NumAdd(OrZero(groups[i].value_usd),
                                      OrZero(token.value_usd))]
      ELSE Append(groups, [token EXCEPT !.token_address = key])

\* one iteration of the loop over allTokens; groups holds the values of the
\* Map tokenGroups in insertion order
MergeToken(groups, token) ==
  LET key == ToLowerCase(token.token_address)
      i   == GroupIndex(groups, key)
  IN  IF i > 0
      THEN LET existing        == groups[i]
               existingBalance == OrZero(ParseFloat(existing.balance))
               newTokenBalance == OrZero(ParseFloat(token.balance))
               combinedBalance == NumAdd(existingBalance, newTokenBalance)
               combinedValue   == NumAdd(OrZero(existing.value_usd),
                                         OrZero(token.value_usd))
           IN  [groups EXCEPT ![i].balance   = NumberToString(combinedBalance),
                              ![i].value_usd = combinedValue]
      ELSE Append(groups, token)

\* the loop over allTokens from its i-th element on
RECURSIVE MergeFrom(_, _, _)
MergeFrom(groups, tokens, i) ==
  IF i > Len(tokens) THEN groups
  ELSE LET merged == MergeToken(groups, tokens[i])
       IN  \* merged is never empty; the test has it computed before the
           \* next iteration
           IF Len(merged) > 0 THEN MergeFrom(merged, tokens, i + 1) ELSE << >>

\* aggregatedTokens = Array.from(tokenGroups.values())
Aggregate(allTokens) == MergeFrom(<< >>, allTokens, 1)

-----------------------------------------------------------------------------
(* fetchUserTokenBalances: token logos *)

knownTokenLogos ==
  ("0x833589fcd6edb6e08f4c7c32d4f71b54bda02913" :> "https://assets.coingecko.com/coins/images/6319/small/USD_Coin_icon.png")
  @@ ("0x4200000000000000000000000000000000000006" :> "https://assets.coingecko.com/coins/images/2518/small/weth.png")
  @@ ("0x940181a94a35a4569e4529a3cdfb74e38fd98631" :> "https://assets.coingecko.com/coins/images/31745/small/token.png")
  @@ ("0x4ed4e862860bed51a9570b96d89af5e1b0efefed" :> "https://assets.coingecko.com/coins/images/34515/small/android-chrome-512x512.png")
  @@ ("0x0578d8a44db98b23bf096a382e016e29a5ce0ffe" :> "https://assets.coingecko.com/coins/images/36617/small/higher.jpg")
  @@ ("0x8c9037d1ef5c6d1f6816278c7aaf5491d24cd527" :> "https://assets.coingecko.com/coins/images/38013/small/Frame_20_%281%29.png")
  @@ ("0x1111111111166b7fe7bd91427724b487980afc69" :> "https://assets.coingecko.com/coins/images/31622/small/zora-logo-200x200.png")

\* What the DexScreener request of one lookup does: it answers with a pair
\* that carries an image, it answers without one (or not ok), or it fails.
DexOutcomes == {"image", "none", "throws"}

\* pair.info.imageUrl of the first pair that has one
DexImageUrl(tokenAddress) == "https://dd.dexscreener.com/ds-data/tokens/base/" \o tokenAddress \o ".png"

getTokenLogoUrl(tokenAddress, symbol, dex) ==
  IF tokenAddress = "" \/ tokenAddress = "native"
  THEN IF symbol = "ETH"
       THEN Some("https://assets.coingecko.com/coins/images/279/small/ethereum.png")
       ELSE Undefined
  ELSE LET lowerCaseAddress == ToLowerCase(tokenAddress)
       IN  IF lowerCaseAddress \in DOMAIN knownTokenLogos
           THEN Some(knownTokenLogos[lowerCaseAddress])
           ELSE IF dex = "image"
           THEN Some(DexImageUrl(tokenAddress))
           ELSE Some("https://raw.githubusercontent.com/trustwallet/assets/master/blockchains/base/assets/"
                     \o tokenAddress \o "/logo.png")

\* the Promise.all over aggregatedTokens: each token gets its own logo_url
PopulateLogos(tokens, dex) ==
  [i \in 1..Len(tokens) |->
     [tokens[i] EXCEPT !.logo_url =
        getTokenLogoUrl(tokens[i].token_address, tokens[i].token_symbol, dex)]]

-----------------------------------------------------------------------------
(* fetchUserTokenBalances: scam and noise filter *)

\* knownScamTokens
ScamContracts ==
  { "0xc44a4f600f434c887be43449c8084ea0a08517b9",
    "0xe9d43de0898df63ba125384240699f7e4bae61d9",
    "0xad20b837d28eff66af55ef0962c6bdb7c7888cb8",
    "0xe3c84123d49cbfdfdfc94b9254525832eaca11f7",
    "0xc7507de6824cdd759da0d08c0ddcc1a50bd0f26d" }
\* the last name is written in the source with three emoji, given here by
\* their code points
ScamNames ==
  { "phylactery", "jelly drink", "hoe benk", "cappa juice",
    "!!<U+1F3C6><U+1F449>flip gg<U+1F448>" }
ScamSymbols == { "phy", "drink", "hbk", "juice", "flip" }
SuspiciousKeywords ==
  { "visit", "swap", "claim", "airdrop", "free", "bonus",
    "winner", "reward", "gift", "promo", ".com", ".xyz", ".to" }

\* defiStakingTokens
StakingContracts ==
  { "0xa0e430870c4604ccfc7b38ca7845b1ff653d0ff1",
    "0xc1256ae5ff1cf2719d4937adb3bbccab2e00a2ca" }
StakingSymbols == { "mweth", "mwusdc" }
StakingNameKeywords == { "moonwell flagship", "staked", "wrapped", "yield", "vault" }

ImpossibleValue == 10000000
TinyHolding == 100
MaxPricePerToken == 1000000

\* contractAddress = token.token_address, in the case it came in
contractAddressAsGiven(token) == token.token_address

\* contractAddress = (token.token_address || '').toLowerCase()
contractAddressOf(token) == ToLowerCase(token.token_address)

\* a known scam contract or a DeFi staking contract
BlockedContract(contractAddress) ==
  contractAddress \in ScamContracts \/ contractAddress \in StakingContracts

\* value > 10000000 && balance < 10
ImpossiblyValuedBelowTen(value, balance) ==
  NumGt(value, Int2Num(ImpossibleValue)) /\ NumLt(balance, Int2Num(10))

\* value > 10000000 && balance < 100
ImpossiblyValued(value, balance) ==
  NumGt(value, Int2Num(ImpossibleValue)) /\ NumLt(balance, Int2Num(TinyHolding))

\* pricePerToken = balance > 0 ? value / balance : 0; pricePerToken >= 1000000
ExtremelyOvervaluedFromLimit(value, balance) ==
  /\ NumGt(balance, Zero)
  /\ ~value.nan
  /\ value.w \div balance.w >= MaxPricePerToken

\* pricePerToken = balance > 0 ? value / balance : 0; pricePerToken > 1000000
ExtremelyOvervalued(value, balance) ==
  NumGt(balance, Zero) /\ QuotientExceeds(value, balance, MaxPricePerToken)

isLikelyScamToken(token) ==
  LET value           == OrZero(token.value_usd)
      balance         == OrZero(ParseFloat(token.balance))
      nameToCheck     == ToLowerCase(token.token_name)
      symbolToCheck   == ToLowerCase(token.token_symbol)
      contractAddress == contractAddressOf(token)
  IN  \/ BlockedContract(contractAddress)
      \/ nameToCheck \in ScamNames
      \/ symbolToCheck \in ScamSymbols
      \/ symbolToCheck \in StakingSymbols
      \/ \E keyword \in StakingNameKeywords : Includes(nameToCheck, keyword)
      \/ \E keyword \in SuspiciousKeywords :
            Includes(nameToCheck, keyword) \/ Includes(symbolToCheck, keyword)
      \/ ImpossiblyValued(value, balance)
      \/ ExtremelyOvervalued(value, balance)

-----------------------------------------------------------------------------
(* fetchUserTokenBalances: value filter, ranking and total *)

MintedMerchAddress == "0x774eaefe73df7959496ac92a77279a8d7d690b07"

\* pricePerToken = 0.000004235, in billionths
MintedMerchPriceNano == 4235

\* isMintedMerch, by the address in the case it came in
isMintedMerchAsGiven(token) == token.token_address = MintedMerchAddress

isMintedMerch(token) == ToLowerCase(token.token_address) = MintedMerchAddress

\* hasValue = token.value_usd, without the test of its sign
hasValueUnsigned(token) == Truthy(token.value_usd)

\* hasValue = token.value_usd && token.value_usd > 0
hasValue(token) == Truthy(token.value_usd) /\ NumGt(token.value_usd, Zero)

\* the assignment the value filter makes to a mintedmerch token without value
WithFallbackValue(token) ==
  IF isMintedMerch(token) /\ ~Truthy(token.value_usd) /\ token.balance # ""
  THEN [token EXCEPT !.value_usd =
          NumMulNano(ParseFloat(token.balance), MintedMerchPriceNano)]
  ELSE token

\* the predicate of the value filter
KeptByValueFilter(token) == isMintedMerch(token) \/ hasValue(token)

\* the tokens as the value filter leaves them: it assigns the fallback value
\* to the objects of aggregatedTokens themselves
AfterValueFilter(tokens) ==
  [i \in 1..Len(tokens) |-> WithFallbackValue(tokens[i])]

tokensWithValueOf(tokens) == SelectSeq(AfterValueFilter(tokens), KeptByValueFilter)

\* the predicate of the scam filter, were the allow-listed contract exempt
NotScamUnlessAllowListed(token) == isMintedMerch(token) \/ ~isLikelyScamToken(token)

NotScam(token) == ~isLikelyScamToken(token)

filteredTokensOf(tokens) == SelectSeq(tokensWithValueOf(tokens), NotScam)

\* the comparator (b.value_usd || 0) - (a.value_usd || 0) is positive:
\* b goes before a
ComesBefore(b, a) == NumGt(OrZero(b.value_usd), OrZero(a.value_usd))

\* an unstable sort: token goes before the elements of equal value
RECURSIVE InsertSortedBeforeEqual(_, _)
InsertSortedBeforeEqual(sorted, token) ==
  IF sorted = << >> THEN << token >>
  ELSE IF ~ComesBefore(Head(sorted), token)
       THEN << token >> \o sorted
       ELSE << Head(sorted) >> \o InsertSortedBeforeEqual(Tail(sorted), token)

\* Array.prototype.sort is stable: token goes after every element that does
\* not come after it
RECURSIVE InsertSorted(_, _)
InsertSorted(sorted, token) ==
  IF sorted = << >> THEN << token >>
  ELSE IF ComesBefore(token, Head(sorted))
       THEN << token >> \o sorted
       ELSE << Head(sorted) >> \o InsertSorted(Tail(sorted), token)

\* the elements from the i-th on, inserted one after the other
RECURSIVE SortFrom(_, _, _)
SortFrom(sorted, tokens, i) ==
  IF i > Len(tokens) THEN sorted
  ELSE LET next == InsertSorted(sorted, tokens[i])
       IN  \* next is never empty; the test has it computed before the next
           \* insertion
           IF Len(next) > 0 THEN SortFrom(next, tokens, i + 1) ELSE << >>

SortByValue(tokens) == SortFrom(<< >>, tokens, 1)

TopN == 20

\* slice(0, n + 1)
SliceOneMore(tokens, n) == SubSeq(tokens, 1, IF Len(tokens) < n + 1 THEN Len(tokens) ELSE n + 1)

\* slice(0, n)
Slice(tokens, n) == SubSeq(tokens, 1, IF Len(tokens) < n THEN Len(tokens) ELSE n)

sortedTokensOf(tokens) == Slice(SortByValue(filteredTokensOf(tokens)), TopN)

\* the reduce over the first k tokens: sum + (token.value_usd || 0)
RECURSIVE SumValues(_, _)
SumValues(ts, k) ==
  IF k = 0 THEN Zero
  ELSE NumAdd(SumValues(ts, k - 1), OrZero(ts[k].value_usd))

\* totalValueUsd = sortedTokens.reduce(...)
totalValueUsdOf(sortedTokens) == SumValues(sortedTokens, Len(sortedTokens))

-----------------------------------------------------------------------------
(* Upstream responses *)

MaxHoldings == 2
MaxBulk == 21

TokenInfo(name, symbol, contract_address) ==
  Some([name |-> name, symbol |-> symbol, contract_address |-> contract_address])
Balance(in_token, in_usdc) ==
  Some([in_token |-> in_token, in_usdc |-> in_usdc])
Qty(i) == Some(JsNumber(Int2Num(i)))
Usd(i) == Some(Int2Num(i))
Holding(token, balance) == [token |-> token, balance |-> balance]

MintedMerchUpper == "0x774EAEFE73DF7959496AC92A77279A8D7D690B07"
ScamContractUpper == "0xC44A4F600F434C887BE43449C8084EA0A08517B9"
StakingContract == "0xa0e430870c4604ccfc7b38ca7845b1ff653d0ff1"

Alpha(contract_address, in_token, in_usdc) ==
  Holding(TokenInfo(Some("Alpha"), Some("ALPHA"), Some(contract_address)),
          Balance(in_token, in_usdc))
Beta(contract_address, in_token, in_usdc) ==
  Holding(TokenInfo(Some("Beta"), Some("BETA"), Some(contract_address)),
          Balance(in_token, in_usdc))
Ether == Holding(TokenInfo(Some("Ethereum"), Some("ETH"), Undefined),
                 Balance(Qty(2), Usd(5000)))
Merch(contract_address, in_token, in_usdc) ==
  Holding(TokenInfo(Some("mintedmerch"), Some("MINTEDMERCH"), Some(contract_address)),
          Balance(in_token, in_usdc))
Omega(contract_address, in_token, in_usdc) ==
  Holding(TokenInfo(Some("Omega"), Some("OMEGA"), Some(contract_address)),
          Balance(in_token, in_usdc))

\* one contract in two spellings, a second contract of equal value, holdings
\* without value and with a negative value, the native coin
MergeFamily ==
  << Alpha("0xAAA", Qty(100), Usd(50)),
     Alpha("0xaaa", Qty(50), Usd(25)),
     Beta("0xBBB", Qty(10), Usd(50)),
     Beta("0xBBB", Qty(5), Undefined),
     Beta("0xbbb", Qty(5), Usd(-5)),
     Ether >>

\* the allow-listed contract: without value, with no quantity, with a value,
\* with an unparseable quantity, with a large value; and another contract;
\* and the allow-listed contract under a name with a suspicious keyword
MerchFamily ==
  << Merch(MintedMerchAddress, Qty(150000), Undefined),
     Merch(MintedMerchUpper, Qty(0), Usd(0)),
     Merch(MintedMerchAddress, Qty(10), Usd(3)),
     Merch(MintedMerchAddress, Some(JsString("abc")), Undefined),
     Merch(MintedMerchUpper, Qty(1), Usd(20000000)),
     Beta("0xBBB", Qty(10), Usd(50)),
     Holding(TokenInfo(Some("Claim Merch"), Some("MINTEDMERCH"), Some(MintedMerchUpper)),
             Balance(Qty(7), Undefined)) >>

\* block-listed contracts; a large value from one token, more of the same
\* contract, a large value from fifty tokens; a large price per token; a scam
\* name; a suspicious keyword; a scam symbol followed by a space
FilterFamily ==
  << Holding(TokenInfo(Some("Gamma"), Some("GAMMA"), Some(ScamContractUpper)),
             Balance(Qty(10), Usd(500))),
     Holding(TokenInfo(Some("Delta"), Some("DELTA"), Some(StakingContract)),
             Balance(Qty(10), Usd(300))),
     Omega("0xCCC", Qty(1), Usd(20000000)),
     Omega("0xccc", Qty(200), Usd(5)),
     Omega("0xCCC", Qty(50), Usd(20000000)),
     Holding(TokenInfo(Some("Sigma"), Some("SIGMA"), Some("0xDDD")),
             Balance(Qty(1), Usd(2000000))),
     Holding(TokenInfo(Some("Phylactery"), Some("PHY"), Some("0xFFF")),
             Balance(Qty(10), Usd(40))),
     Holding(TokenInfo(Some("Free Airdrop"), Some("FA"), Some("0xF00")),
             Balance(Qty(10), Usd(60))),
     Holding(TokenInfo(Some(" Hoe Benk"), Some("PHY "), Some("0xF11")),
             Balance(Qty(10), Usd(45))) >>

\* malformed records: no token object, no balance object, no name and no
\* symbol, no contract address, unparseable quantities; and well-formed ones
MalformedFamily ==
  << [token |-> Undefined, balance |-> Balance(Qty(3), Usd(7))],
     [token |-> TokenInfo(Some("Alpha"), Some("ALPHA"), Some("0xAAA")), balance |-> Undefined],
     Holding(TokenInfo(Undefined, Undefined, Some("0xEEE")), Balance(Qty(4), Usd(9))),
     Holding(TokenInfo(Some("Alpha"), Some("ALPHA"), Undefined), Balance(Undefined, Usd(8))),
     Alpha("0xaaa", Some(JsString("abc")), Usd(10)),
     Alpha("0xAAA", Some(JsString("12abc")), Undefined),
     Alpha("0xAAA", Qty(100), Usd(50)),
     Holding(TokenInfo(Some("Epsilon"), Some("EPS"), Some("0xeee")), Balance(Qty(6), Usd(11))) >>

Kappa(contract_address, in_token, in_usdc) ==
  Holding(TokenInfo(Some("Kappa"), Some("KAPPA"), Some(contract_address)),
          Balance(in_token, in_usdc))

\* one contract with a price per token just above, just below and well above
\* 1,000,000, and with a value but no quantity; and another contract
PriceFamily ==
  << Kappa("0xABC", Qty(2), Usd(2000001)),
     Kappa("0xabc", Qty(2), Usd(1999999)),
     Kappa("0xABC", Qty(1), Usd(1500000)),
     Kappa("0xABC", Qty(0), Usd(5000000)),
     Beta("0xBBB", Qty(10), Usd(50)) >>

Families == << MergeFamily, MerchFamily, FilterFamily, MalformedFamily, PriceFamily >>

\* the sequences of at most n holdings of one family
RECURSIVE HoldingSeqs(_, _)
HoldingSeqs(family, n) ==
  IF n = 0 THEN { << >> }
  ELSE LET shorter == HoldingSeqs(family, n - 1)
       IN  shorter \cup { Append(hs, family[i]) :
                            hs \in { x \in shorter : Len(x) = n - 1 },
                            i \in 1..Len(family) }

Wallet(token_balances) == [token_balances |-> Some(token_balances)]

\* the holdings, one wallet each
Wallets(hs) == [i \in 1..Len(hs) |-> Wallet(<< hs[i] >>)]

\* the i-th of many distinct well-formed holdings with distinct values
BulkHolding(i) ==
  Holding(TokenInfo(Some("Token" \o NatToString(i)), Some("TKN" \o NatToString(i)),
                    Some("0xb" \o NatToString(i))),
          Balance(Qty(i), Usd(10 * i)))

\* n of them in one wallet: by rising value, by falling value, or the odd
\* ones before the even ones
BulkWallets(n) ==
  { Wallet([i \in 1..n |-> BulkHolding(i)]),
    Wallet([i \in 1..n |-> BulkHolding(n + 1 - i)]),
    Wallet([i \in 1..n |-> BulkHolding(IF 2 * i - 1 <= n THEN 2 * i - 1
                                      ELSE 2 * (i - ((n + 1) \div 2)))]) }

UserBalance(address_balances) ==
  Some([user_balance |-> Some([address_balances |-> Some(address_balances)])])

\* responses without data
EmptyResponses ==
  { Undefined,
    Some([user_balance |-> Undefined]),
    Some([user_balance |-> Some([address_balances |-> Undefined])]),
    UserBalance(<< >>),
    UserBalance(<< [token_balances |-> Undefined] >>),
    UserBalance(<< Wallet(<< >>) >>),
    UserBalance(<< Wallet(<< >>), [token_balances |-> Undefined] >>) }

\* a few wallets of few holdings
SmallResponses ==
  { UserBalance(Wallets(hs)) :
      hs \in UNION { HoldingSeqs(Families[f], MaxHoldings) : f \in 1..Len(Families) } }

\* a wallet of at most one holding, then a wallet of many
BulkResponses ==
  { UserBalance(<< Wallet(hs), b >>) :
      hs \in HoldingSeqs(FilterFamily, 1) \cup HoldingSeqs(MerchFamily, 1),
      b \in UNION { BulkWallets(n) : n \in TopN..MaxBulk } }

\* the 30 holdings of the specification's bounding scenario
ThirtyHoldings == { UserBalance(<< b >>) : b \in BulkWallets(30) }

\* 1000 tokens worth 2,000,000,000: in one wallet, and half in each of two
BillionsResponses ==
  { UserBalance(<< Wallet(<< Kappa("0xABC", Qty(1000), Usd(2000000000)) >>) >>),
    UserBalance(<< Wallet(<< Kappa("0xABC", Qty(500), Usd(1000000000)) >>),
                   Wallet(<< Kappa("0xabc", Qty(500), Usd(1000000000)),
                             Beta("0xBBB", Qty(10), Usd(50)) >>) >>) }

Responses ==
  EmptyResponses \cup SmallResponses \cup BulkResponses \cup ThirtyHoldings
    \cup BillionsResponses

\* what a failed fetch throws: an Error with a message, or something else
Rejections ==
  { [isError |-> TRUE,  message |-> "Request failed with status code 500"],
    [isError |-> TRUE,  message |-> "timeout of 10000ms exceeded"],
    [isError |-> FALSE, message |-> "" ] }

Calls ==
  { [fid |-> 3,   bankrAddresses |-> << >>],
    [fid |-> 194, bankrAddresses |-> << "0x1111111111111111111111111111111111111111" >>] }

-----------------------------------------------------------------------------
(* fetchUserTokenBalances *)

\* response.user_balance.address_balances || []
addressBalancesOf(r) ==
  LET a == r[1].user_balance[1].address_balances
  IN  IF a = Undefined THEN << >> ELSE a[1]

\* !response || !response.user_balance
NoBalanceData(r) == r = Undefined \/ r[1].user_balance = Undefined

Result(f, tokens, total, error) ==
  [fid |-> f, tokens |-> tokens, total_value_usd |-> total, error |-> error]

\* the statements after the logo lookups, with an error reported when the
\* filters or the cut dropped a token
ResultOfReportingDropped(f, tokens) ==
  LET sortedTokens == sortedTokensOf(tokens)
  IN  Result(f, sortedTokens, totalValueUsdOf(sortedTokens),
             IF Len(sortedTokens) < Len(tokens) THEN Some("Some tokens were dropped")
             ELSE Undefined)

\* the statements after the logo lookups, up to the return
ResultOf(f, tokens) ==
  LET sortedTokens == sortedTokensOf(tokens)
  IN  Result(f, sortedTokens, totalValueUsdOf(sortedTokens), Undefined)

\* the catch clause, with the fixed message for every failure
ErrorResultFixedMessage(f, e) ==
  [fid |-> f, tokens |-> << >>, total_value_usd |-> Zero,
   error |-> Some("Failed to fetch token balances")]

\* the catch clause
ErrorResult(f, e) ==
  Result(f, << >>, Zero,
         Some(IF e.isError THEN e.message ELSE "Failed to fetch token balances"))

\* no request to POST /api/search has come
NoRequest ==
  [ pc |-> "idle", inputs |-> Undefined, lookups |-> << >>,
    addresses |-> << >>, usernames |-> << >>, fids |-> << >>, xUsernames |-> << >>,
    ambiguousUsernames |-> << >>, notFoundAsFarcaster |-> << >>,
    allUsers |-> << >>, allSearchedInputs |-> << >>, allNotFoundInputs |-> << >>,
    response |-> Undefined ]

\* no call of searchUsersByAddresses or searchUsersByFIDs
NoUserSearch ==
  [ pc |-> "idle", fn |-> "", args |-> << >>, requests |-> << >>,
    sdk |-> Undefined, rest |-> Undefined, returned |-> Undefined, thrown |-> Undefined ]

\* nothing stored in the bucket and no call of getTokenImageUrl
EmptyBucket ==
  [ pc |-> "idle", bucket |-> {}, originalUrl |-> "", imageKey |-> "",
    contentType |-> "", finalKey |-> "", results |-> << >> ]

\* the AddressInput component as mounted: useState(''), useState([]),
\* useState(null); onAddressSubmit not yet called
EmptyAddressInput ==
  [ inputValue |-> "", inputs |-> << >>, validation |-> Undefined,
    submitted |-> Undefined, submits |-> 0 ]

\* a TokenBalances component before its first render: no props yet, the
\* state of useState(null), useState(true), useState(null), no request
NoBalanceView ==
  [ fid |-> 0, effects |-> 0, inFlight |-> {}, balanceData |-> Undefined,
    loading |-> TRUE, error |-> Undefined, errorOf |-> 0 ]

\* useState(null), useState(true), useState(null); no run of the effect yet
\* and no fetch awaited
Mounted ==
  [balanceData |-> Undefined, loading |-> TRUE, error |-> Undefined,
   effects |-> 0, fetching |-> 0]

Init ==
  /\ pc = "start"
  /\ \E c \in Calls : fid = c.fid /\ bankrAddresses = c.bankrAddresses
  /\ response = Undefined
  /\ thrown = Undefined
  /\ aggregatedTokens = << >>
  /\ result = Undefined
  /\ shareImage = Undefined
  /\ component = Mounted
  /\ calls = << >>
  /\ search = NoRequest
  /\ userSearch = NoUserSearch
  /\ r2 = EmptyBucket
  /\ addressInput = EmptyAddressInput
  /\ balanceView = NoBalanceView

\* client.fetchUserBalance resolves with r, and a response without
\* user_balance is reported as an error
FetchResolvesNoDataIsError(r) ==
  /\ pc = "start"
  /\ response' = r
  /\ IF r = Undefined \/ r[1].user_balance = Undefined
     THEN /\ result' = Some([fid |-> fid, tokens |-> << >>, total_value_usd |-> Zero,
                             error |-> Some("No balance data found")])
          /\ aggregatedTokens' = << >>
          /\ pc' = "done"
     ELSE /\ aggregatedTokens' =
               Aggregate(allTokensOf(addressBalancesOf(r), bankrAddresses))
          /\ result' = Undefined
          /\ pc' = "logos"
  /\ UNCHANGED <<fid, bankrAddresses, thrown, shareImage, component, calls, entries>>

\* client.fetchUserBalance resolves with r: up to the early return, or up to
\* the await of the logo lookups
FetchResolves(r) ==
  /\ pc = "start"
  /\ response' = r
  /\ IF NoBalanceData(r)
     THEN /\ result' = Some(Result(fid, << >>, Zero, Undefined))
          /\ aggregatedTokens' = << >>
          /\ pc' = "done"
     ELSE /\ aggregatedTokens' =
               Aggregate(allTokensOf(addressBalancesOf(r), bankrAddresses))
          /\ result' = Undefined
          /\ pc' = "logos"
  /\ UNCHANGED <<fid, bankrAddresses, thrown, shareImage, component, calls, entries>>

\* client.fetchUserBalance rejects with e: the catch clause returns
FetchRejects(e) ==
  /\ pc = "start"
  /\ thrown' = Some(e)
  /\ result' = Some(ErrorResult(fid, e))
  /\ pc' = "done"
  /\ UNCHANGED <<fid, bankrAddresses, response, aggregatedTokens,
                  shareImage, component, calls, entries>>

\* the logo lookups have settled: filters, ranking, total and return
LogosSettle(dex) ==
  /\ pc = "logos"
  /\ aggregatedTokens' = AfterValueFilter(PopulateLogos(aggregatedTokens, dex))
  /\ result' = Some(ResultOf(fid, PopulateLogos(aggregatedTokens, dex)))
  /\ pc' = "done"
  /\ UNCHANGED <<fid, bankrAddresses, response, thrown, shareImage, component, calls, entries>>

Next ==
  \/ \E r \in Responses : FetchResolves(r)
  \/ \E e \in Rejections : FetchRejects(e)
  \/ \E dex \in DexOutcomes : LogosSettle(dex)

Spec == Init /\ [][Next]_vars

-----------------------------------------------------------------------------
(* GET /api/generate-share-image *)

\* a number after JSON.stringify and JSON.parse: NaN has become null
JsonNumber(a) == IF a.nan THEN Undefined ELSE Some(a)

\* NextResponse.json(balanceResult), as the caller parses it
BalanceJson(balanceResult) ==
  [ fid             |-> balanceResult.fid,
    tokens          |-> [i \in 1..Len(balanceResult.tokens) |->
                           [balanceResult.tokens[i] EXCEPT
                              !.value_usd = JsonNumber(balanceResult.tokens[i].value_usd)]],
    total_value_usd |-> JsonNumber(balanceResult.total_value_usd),
    error           |-> balanceResult.error ]

TwoDigits(i) == SubSeq(Digits, (i \div 10) + 1, (i \div 10) + 1)
                  \o SubSeq(Digits, (i % 10) + 1, (i % 10) + 1)

\* formatUsd; toFixed rounds the decimal to the nearest, halves upwards
formatUsd(value) ==
  LET v == IF value = Undefined THEN Zero ELSE OrZero(value[1])
  IN  IF NumLt(v, Num(0, 10000000)) THEN "<$0.01"
      ELSE IF v.w < 1000
      THEN LET cents == v.w * 100 + ((v.n + 5000000) \div 10000000)
           IN  "$" \o NatToString(cents \div 100) \o "." \o TwoDigits(cents % 100)
      ELSE IF v.w < 1000000
      THEN LET tenths == (v.w + 50) \div 100
           IN  "$" \o NatToString(tenths \div 10) \o "." \o NatToString(tenths % 10) \o "K"
      ELSE LET tenths == (v.w + 50000) \div 100000
           IN  "$" \o NatToString(tenths \div 10) \o "." \o NatToString(tenths % 10) \o "M"

ShareTokens == 10

\* the image: the total of the header, and the tokens of the two columns
\* with symbol and value
ImageOf(shown, total_value_usd) ==
  LET topTokens == Slice(shown, ShareTokens)
  IN  [ header    |-> formatUsd(Some(total_value_usd)),
        topTokens |-> topTokens,
        rows      |-> [i \in 1..Len(topTokens) |->
                         [symbol |-> topTokens[i].token_symbol,
                          value  |-> formatUsd(topTokens[i].value_usd)]] ]

\* GET: the route fetches /api/balance, which answers with the result of
\* fetchUserTokenBalances (ok) or not at all, and renders the image
GenerateShareImage(ok) ==
  /\ pc = "done"
  /\ shareImage = Undefined
  /\ LET data == BalanceJson(result[1])
     IN  shareImage' =
           Some(IF ok
                THEN ImageOf(Slice(data.tokens, ShareTokens),
                             IF data.total_value_usd = Undefined THEN Zero
                             ELSE data.total_value_usd[1])
                ELSE ImageOf(<< >>, Zero))
  /\ UNCHANGED <<pc, fid, bankrAddresses, response, thrown, aggregatedTokens, result,
                 component, calls, entries>>

\* the responses of the balance lookups behind the route
ShareResponses ==
  EmptyResponses \cup ThirtyHoldings
    \cup { UserBalance(Wallets(hs)) : hs \in HoldingSeqs(MergeFamily, MaxHoldings) }
    \cup { UserBalance(Wallets(hs)) : hs \in HoldingSeqs(MerchFamily, MaxHoldings) }

NextShare ==
  \/ \E r \in ShareResponses : FetchResolves(r)
  \/ \E e \in Rejections : FetchRejects(e)
  \/ \E dex \in DexOutcomes : LogosSettle(dex)
  \/ \E ok \in BOOLEAN : GenerateShareImage(ok)

SpecShare == Init /\ [][NextShare]_vars

-----------------------------------------------------------------------------
(* The TokenBalances component *)

MaxEffects == 3

ViewToken(symbol, usd) ==
  [ token_address |-> "0x" \o symbol, token_name |-> symbol, token_symbol |-> symbol,
    balance |-> "1", value_usd |-> Some(Int2Num(usd)), logo_url |-> Undefined ]

ApiResult(shown, total, message) ==
  [fid |-> 3, tokens |-> shown, total_value_usd |-> Some(Int2Num(total)), error |-> message]

\* what the fetch of /api/balance can come to: a result with or without
\* tokens and with or without error, a body without tokens, a status that is
\* not ok, a rejection
ApiReplies ==
  { [kind |-> "ok", body |-> ApiResult(<< >>, 0, Undefined)],
    [kind |-> "ok", body |-> ApiResult(<< ViewToken("ALPHA", 50) >>, 50, Undefined)],
    [kind |-> "ok", body |-> ApiResult(<< ViewToken("BETA", 70), ViewToken("ALPHA", 50) >>,
                                       120, Some("Logo service unavailable"))],
    [kind |-> "ok", body |-> ApiResult(<< >>, 0, Some("Request failed with status code 500"))],
    [kind |-> "ok", body |-> ApiResult(<< ViewToken("ALPHA", 50) >>, 50, Some(""))],
    [kind |-> "noTokens", body |-> Undefined],
    [kind |-> "notOk", body |-> Undefined],
    [kind |-> "rejects", body |-> Undefined],
    [kind |-> "rejectsNoError", body |-> Undefined] }

\* the effect runs, after mounting or after a change of fid, username or
\* bankrAddresses: fetchBalances up to its await
fetchBalances ==
  /\ component.effects < MaxEffects
  /\ component' = [component EXCEPT !.loading = TRUE, !.error = Undefined,
                                    !.effects = @ + 1, !.fetching = @ + 1]
  /\ UNCHANGED <<pc, fid, bankrAddresses, response, thrown, aggregatedTokens, result,
                 shareImage, calls, entries>>

\* the message of what fetchBalances catches
CaughtMessage(reply) ==
  IF reply.kind = "notOk" THEN "HTTP 500: Internal Server Error"
  ELSE IF reply.kind = "rejects" THEN "Failed to fetch"
  ELSE IF reply.kind = "noTokens"
  THEN "Cannot read properties of undefined (reading 'length')"
  ELSE "Failed to load token balances"

\* a fetch of fetchBalances settles: the rest of fetchBalances
fetchBalancesSettles(reply) ==
  /\ component.fetching > 0
  /\ component' =
       IF reply.kind = "ok"
       THEN [component EXCEPT
               !.balanceData = Some(reply.body),
               !.error = IF StrOr(reply.body.error, "") # "" THEN reply.body.error ELSE @,
               !.loading = FALSE,
               !.fetching = @ - 1]
       ELSE [component EXCEPT
               !.error = Some(CaughtMessage(reply)),
               !.loading = FALSE,
               !.fetching = @ - 1]
  /\ UNCHANGED <<pc, fid, bankrAddresses, response, thrown, aggregatedTokens, result,
                 shareImage, calls, entries>>

\* a render that shows an error panel when there is an error and no data
RenderWithErrorPanel(c) ==
  IF c.loading /\ c.balanceData = Undefined THEN [view |-> "loading", rows |-> << >>]
  ELSE IF StrOr(c.error, "") # ""
          /\ (c.balanceData = Undefined \/ Len(c.balanceData[1].tokens) = 0)
  THEN [view |-> "error", rows |-> << >>]
  ELSE IF c.balanceData = Undefined \/ Len(c.balanceData[1].tokens) = 0
  THEN [view |-> "nothing", rows |-> << >>]
  ELSE [view |-> "holdings", rows |-> c.balanceData[1].tokens]

\* what the component renders: the loading skeleton, nothing (null), or the
\* holdings list with a row for each token
Render(c) ==
  IF c.loading /\ c.balanceData = Undefined THEN [view |-> "loading", rows |-> << >>]
  ELSE IF StrOr(c.error, "") # ""
          /\ (c.balanceData = Undefined \/ Len(c.balanceData[1].tokens) = 0)
  THEN [view |-> "nothing", rows |-> << >>]
  ELSE IF c.balanceData = Undefined \/ Len(c.balanceData[1].tokens) = 0
  THEN [view |-> "nothing", rows |-> << >>]
  ELSE [view |-> "holdings", rows |-> c.balanceData[1].tokens]

NextComponent ==
  \/ fetchBalances
  \/ \E reply \in ApiReplies : fetchBalancesSettles(reply)

SpecComponent == Init /\ [][NextComponent]_vars

-----------------------------------------------------------------------------
(* Two concurrent calls of fetchUserTokenBalances, as two requests of       *)
(* /api/balance make them.  Every await is a suspension point: the balance  *)
(* fetch, each logo lookup of the Promise.all, and the Promise.all itself.  *)

\* a call that has not started: its arguments and its locals; pending is the
\* set of the tokens whose logo lookup has not settled, answers what the
\* DexScreener request of each lookup came to; overlap records that the call
\* started while the other was between its fetch and its return
StartCall(f, bankr) ==
  [ pc |-> "start", fid |-> f, bankrAddresses |-> bankr,
    response |-> Undefined, thrown |-> Undefined,
    aggregatedTokens |-> << >>, pending |-> {}, answers |-> << >>,
    result |-> Undefined, overlap |-> FALSE ]

\* the other call
Other(p) == 3 - p

\* the responses of the balance fetches of the two calls
PairResponses ==
  { Undefined,
    UserBalance(<< >>),
    UserBalance(<< Wallet(<< Alpha("0xAAA", Qty(100), Usd(50)) >>),
                   Wallet(<< Alpha("0xaaa", Qty(50), Usd(25)) >>) >>),
    UserBalance(<< Wallet(<< Beta("0xBBB", Qty(10), Usd(50)),
                             Alpha("0xAAA", Qty(100), Usd(50)) >>) >>),
    UserBalance(<< Wallet(<< Ether >>),
                   Wallet(<< Merch(MintedMerchUpper, Qty(150000), Undefined) >>) >>) }

InitPair ==
  /\ pc = "start"
  /\ fid = 3
  /\ bankrAddresses = << >>
  /\ response = Undefined
  /\ thrown = Undefined
  /\ aggregatedTokens = << >>
  /\ result = Undefined
  /\ shareImage = Undefined
  /\ component = Mounted
  /\ calls = << StartCall(3, << >>), StartCall(194, << >>) >>
  /\ search = NoRequest
  /\ userSearch = NoUserSearch
  /\ r2 = EmptyBucket
  /\ addressInput = EmptyAddressInput
  /\ balanceView = NoBalanceView

\* as CallFetchResolves, with the Map tokenGroups kept at module level: the
\* groups of a call that has not returned are still in it
CallFetchResolvesSharedGroups(p, r) ==
  /\ calls[p].pc = "start"
  /\ LET groups == Aggregate((IF calls[Other(p)].pc = "logos"
                              THEN calls[Other(p)].aggregatedTokens ELSE << >>)
                             \o (IF NoBalanceData(r) THEN << >>
                                 ELSE allTokensOf(addressBalancesOf(r),
                                                  calls[p].bankrAddresses)))
     IN  calls' = [calls EXCEPT ![p] =
           IF NoBalanceData(r)
           THEN [@ EXCEPT !.response = r, !.pc = "done",
                          !.result = Some(Result(calls[p].fid, << >>, Zero, Undefined))]
           ELSE [@ EXCEPT !.response = r, !.pc = "logos",
                          !.aggregatedTokens = groups,
                          !.pending = 1..Len(groups),
                          !.answers = [i \in 1..Len(groups) |-> ""],
                          !.overlap = calls[Other(p)].pc = "logos"]]
  /\ UNCHANGED <<pc, fid, bankrAddresses, response, thrown, aggregatedTokens, result,
                 shareImage, component, entries>>

\* the continuation of the balance fetch of call p, the response r having been
\* aggregated into groups: the early return, or the await of Promise.all
CallFetchResolvesWith(p, r, groups) ==
  /\ calls[p].pc = "start"
  /\ calls' = [calls EXCEPT ![p] =
       IF NoBalanceData(r)
       THEN [@ EXCEPT !.response = r, !.pc = "done",
                      !.result = Some(Result(calls[p].fid, << >>, Zero, Undefined))]
       ELSE [@ EXCEPT !.response = r, !.pc = "logos",
                      !.aggregatedTokens = groups,
                      !.pending = 1..Len(groups),
                      !.answers = [i \in 1..Len(groups) |-> ""],
                      !.overlap = calls[Other(p)].pc = "logos"]]
  /\ UNCHANGED <<pc, fid, bankrAddresses, response, thrown, aggregatedTokens, result,
                 shareImage, component, entries>>

\* the balance fetch of call p resolves with r: up to the early return, or
\* up to the await of Promise.all, with every logo lookup started
CallFetchResolves(p, r) ==
  CallFetchResolvesWith(p, r,
    IF NoBalanceData(r) THEN << >>
    ELSE Aggregate(allTokensOf(addressBalancesOf(r), calls[p].bankrAddresses)))

\* the balance fetch of call p rejects with e
CallFetchRejects(p, e) ==
  /\ calls[p].pc = "start"
  /\ calls' = [calls EXCEPT ![p] =
       [@ EXCEPT !.thrown = Some(e), !.pc = "done",
                 !.result = Some(ErrorResult(calls[p].fid, e))]]
  /\ UNCHANGED <<pc, fid, bankrAddresses, response, thrown, aggregatedTokens, result,
                 shareImage, component, entries>>

\* as LogoLookupSettles, without the try and catch around the DexScreener
\* request: a failed request rejects the Promise.all and the catch clause of
\* the call returns
LogoLookupSettlesRejecting(p, i, dex) ==
  /\ calls[p].pc = "logos"
  /\ i \in calls[p].pending
  /\ calls' = [calls EXCEPT ![p] =
       IF dex = "throws"
       THEN [@ EXCEPT !.pc = "done", !.pending = @ \ {i}, !.answers[i] = dex,
                      !.result = Some(ErrorResult(calls[p].fid,
                                        [isError |-> TRUE, message |-> "fetch failed"]))]
       ELSE [@ EXCEPT
               !.aggregatedTokens[i].logo_url =
                  getTokenLogoUrl(calls[p].aggregatedTokens[i].token_address,
                                  calls[p].aggregatedTokens[i].token_symbol, dex),
               !.pending = @ \ {i},
               !.answers[i] = dex]]
  /\ UNCHANGED <<pc, fid, bankrAddresses, response, thrown, aggregatedTokens, result,
                 shareImage, component, entries>>

\* the i-th logo lookup of call p settles with logoUrl, its DexScreener
\* request having come to dex: token.logo_url = logoUrl
LogoLookupSettlesWith(p, i, dex, logoUrl) ==
  /\ calls[p].pc = "logos"
  /\ i \in calls[p].pending
  /\ calls' = [calls EXCEPT ![p] =
       [@ EXCEPT !.aggregatedTokens[i].logo_url = logoUrl,
                 !.pending = @ \ {i},
                 !.answers[i] = dex]]
  /\ UNCHANGED <<pc, fid, bankrAddresses, response, thrown, aggregatedTokens, result,
                 shareImage, component, entries>>

\* the logo lookup of the i-th aggregated token of call p settles, its
\* DexScreener request having come to dex
LogoLookupSettles(p, i, dex) ==
  /\ i \in calls[p].pending
  /\ LogoLookupSettlesWith(p, i, dex,
       getTokenLogoUrl(calls[p].aggregatedTokens[i].token_address,
                       calls[p].aggregatedTokens[i].token_symbol, dex))

\* as CallReturns, with the total kept at module level: it goes on from the
\* total of the call that returned before
CallReturnsSharedTotal(p) ==
  /\ calls[p].pc = "logos"
  /\ calls[p].pending = {}
  /\ LET alone == ResultOf(calls[p].fid, calls[p].aggregatedTokens)
         before == IF calls[Other(p)].pc = "done"
                   THEN calls[Other(p)].result[1].total_value_usd ELSE Zero
     IN  calls' = [calls EXCEPT ![p] =
           [@ EXCEPT !.pc = "done",
                     !.aggregatedTokens = AfterValueFilter(@),
                     !.result = Some([alone EXCEPT !.total_value_usd = NumAdd(@, before)])]]
  /\ UNCHANGED <<pc, fid, bankrAddresses, response, thrown, aggregatedTokens, result,
                 shareImage, component, entries>>

\* the continuation of the Promise.all of call p: the tokens kept by the
\* filters are filteredTokens and the object returned is returned
CallReturnsWith(p, filteredTokens, returned) ==
  /\ calls[p].pc = "logos"
  /\ calls[p].pending = {}
  /\ calls' = [calls EXCEPT ![p] =
       [@ EXCEPT !.pc = "done",
                 !.aggregatedTokens = filteredTokens,
                 !.result = Some(returned)]]
  /\ UNCHANGED <<pc, fid, bankrAddresses, response, thrown, aggregatedTokens, result,
                 shareImage, component, entries>>

\* the Promise.all of call p has resolved: filters, ranking, total and return
CallReturns(p) ==
  CallReturnsWith(p, AfterValueFilter(calls[p].aggregatedTokens),
                  ResultOf(calls[p].fid, calls[p].aggregatedTokens))

NextPair ==
  \E p \in 1..2 :
    \/ \E r \in PairResponses : CallFetchResolves(p, r)
    \/ \E e \in Rejections : CallFetchRejects(p, e)
    \/ \E i \in calls[p].pending, dex \in DexOutcomes : LogoLookupSettles(p, i, dex)
    \/ CallReturns(p)

SpecPair == InitPair /\ [][NextPair]_vars

-----------------------------------------------------------------------------
(* Properties *)

\* the call has returned
Returned == pc = "done"
\* the call has returned after the fetch resolved
Resolved == pc = "done" /\ thrown = Undefined
tokens == result[1].tokens

\* the sum of value_usd over the first k of a list, as an addition of numbers
RECURSIVE PlainSum(_, _)
PlainSum(ts, k) ==
  IF k = 0 THEN Zero
  ELSE NumAdd(PlainSum(ts, k - 1), ts[k].value_usd)

\* C1: the total_value_usd returned is the sum of value_usd over the tokens
\* returned
C1_TotalIsSumOfReturned ==
  Returned => result[1].total_value_usd = PlainSum(tokens, Len(tokens))

\* the indices of the aggregated tokens that pass the value filter and the
\* scam filter
Survivors ==
  { i \in 1..Len(aggregatedTokens) :
      KeptByValueFilter(aggregatedTokens[i]) /\ ~isLikelyScamToken(aggregatedTokens[i]) }

Min(a, b) == IF a < b THEN a ELSE b

C5_NoValuelessToken ==
  Returned =>
    \A i \in 1..Len(tokens) :
      ToLowerCase(tokens[i].token_address) # MintedMerchAddress
        => NumGt(tokens[i].value_usd, Zero)

\* a holding of another contract than the allow-listed one was aggregated to a
\* negative value, and the call has returned
C5_Witness ==
  /\ Resolved
  /\ \E i \in 1..Len(aggregatedTokens) :
       /\ ToLowerCase(aggregatedTokens[i].token_address) # MintedMerchAddress
       /\ NumLt(aggregatedTokens[i].value_usd, Zero)

\* C6: no token is returned whose contract address is, ignoring case, a known
\* scam contract or a DeFi staking contract
C6_NoBlockedContract ==
  Returned =>
    \A i \in 1..Len(tokens) :
      ToLowerCase(tokens[i].token_address) \notin (ScamContracts \cup StakingContracts)

\* a holding of a scam contract spelled in upper case and a holding of a
\* staking contract were aggregated with a positive value, and the call has
\* returned
C6_Witness ==
  /\ Resolved
  /\ \E i \in 1..Len(aggregatedTokens) :
       /\ aggregatedTokens[i].token_address = ScamContractUpper
       /\ NumGt(aggregatedTokens[i].value_usd, Zero)
  /\ \E i \in 1..Len(aggregatedTokens) :
       /\ aggregatedTokens[i].token_address = StakingContract
       /\ NumGt(aggregatedTokens[i].value_usd, Zero)

\* the response carries no holding
NoHoldings(r) ==
  \/ r = Undefined
  \/ r[1].user_balance = Undefined
  \/ r[1].user_balance[1].address_balances = Undefined
  \/ \A i \in 1..Len(r[1].user_balance[1].address_balances[1]) :
       LET tb == r[1].user_balance[1].address_balances[1][i].token_balances
       IN  tb = Undefined \/ tb[1] = << >>

\* C7: when the balance lookup yields no data, the result has no tokens, a
\* total of 0 and no error
C7_NoDataIsEmptyResult ==
  Resolved /\ NoHoldings(response) =>
    /\ tokens = << >>
    /\ result[1].total_value_usd = Zero
    /\ result[1].error = Undefined
    /\ result[1].fid = fid

\* the call has returned for a response without user_balance
C7_Witness ==
  /\ Resolved
  /\ response # Undefined
  /\ response[1].user_balance = Undefined
  /\ result # Undefined

\* C8: when the balance fetch fails, the call returns the fid, no tokens, a
\* total of 0 and the failure's message as error
C8_FetchFailureIsErrorResult ==
  thrown # Undefined =>
    /\ pc = "done"
    /\ result # Undefined
    /\ result[1].fid = fid
    /\ tokens = << >>
    /\ result[1].total_value_usd = Zero
    /\ result[1].error # Undefined
    /\ thrown[1].isError => result[1].error = Some(thrown[1].message)

\* the fetch has failed with an Error that has a message
C8_Witness ==
  /\ thrown # Undefined
  /\ thrown[1].isError
  /\ thrown[1].message = "Request failed with status code 500"
  /\ pc = "done"

\* C10: no token is returned whose value_usd is above 10,000,000 and whose
\* quantity is below 100
C10_NoImpossiblyValuedToken ==
  Returned =>
    \A i \in 1..Len(tokens) :
      ~ /\ NumGt(tokens[i].value_usd, Int2Num(10000000))
        /\ NumLt(OrZero(ParseFloat(tokens[i].balance)), Int2Num(100))

\* a holding was aggregated to a value of 20,000,000 from a quantity of 50,
\* which no other predicate of the scam filter matches, and the call has
\* returned
C10_Witness ==
  /\ Resolved
  /\ \E i \in 1..Len(aggregatedTokens) :
       /\ aggregatedTokens[i].value_usd = Int2Num(20000000)
       /\ aggregatedTokens[i].balance = "50"
       /\ ~BlockedContract(contractAddressOf(aggregatedTokens[i]))
       /\ ~ExtremelyOvervalued(aggregatedTokens[i].value_usd,
                               ParseFloat(aggregatedTokens[i].balance))
       /\ ~isMintedMerch(aggregatedTokens[i])

\* allTokens of the call
Flat == allTokensOf(addressBalancesOf(response), bankrAddresses)

\* the sum of the values (missing: 0) of the first n of flat whose contract
\* address is key ignoring case
RECURSIVE MemberValueSum(_, _, _)
MemberValueSum(flat, key, n) ==
  IF n = 0 THEN Zero
  ELSE NumAdd(MemberValueSum(flat, key, n - 1),
              IF ToLowerCase(flat[n].token_address) = key
              THEN OrZero(flat[n].value_usd) ELSE Zero)

\* the sum of their quantities (unparseable: 0)
RECURSIVE MemberBalanceSum(_, _, _)
MemberBalanceSum(flat, key, n) ==
  IF n = 0 THEN Zero
  ELSE NumAdd(MemberBalanceSum(flat, key, n - 1),
              IF ToLowerCase(flat[n].token_address) = key
              THEN OrZero(ParseFloat(flat[n].balance)) ELSE Zero)

\* C3: the holdings whose contract addresses are equal ignoring case are
\* merged into one aggregated holding, with the sum of their balances and the
\* sum of their values; no two returned holdings share a contract address
\* ignoring case
C3_MergedByContract ==
  /\ pc = "logos" =>
       LET flat == Flat
           keys == [m \in 1..Len(flat) |-> ToLowerCase(flat[m].token_address)]
       IN  \A n \in 1..Len(flat) :
             LET key     == keys[n]
                 members == { m \in 1..Len(flat) : keys[m] = key }
                 groups  == { g \in 1..Len(aggregatedTokens) :
                                ToLowerCase(aggregatedTokens[g].token_address) = key }
             IN  /\ Cardinality(groups) = 1
                 /\ \A g \in groups :
                      /\ aggregatedTokens[g].value_usd = MemberValueSum(flat, key, Len(flat))
                      /\ Cardinality(members) > 1 =>
                           aggregatedTokens[g].balance =
                             NumberToString(MemberBalanceSum(flat, key, Len(flat)))
  /\ Returned =>
       \A i, j \in 1..Len(tokens) :
         i # j => ToLowerCase(tokens[i].token_address) # ToLowerCase(tokens[j].token_address)

\* two holdings of one contract in two spellings, the first with an
\* unparseable quantity, have been merged
C3_Witness ==
  /\ pc = "logos"
  /\ Len(Flat) = 2
  /\ Flat[1].token_address # Flat[2].token_address
  /\ ParseFloat(Flat[1].balance) = NaN
  /\ Len(aggregatedTokens) = 1
  /\ aggregatedTokens[1].balance = "100"
  /\ aggregatedTokens[1].value_usd = Int2Num(60)

\* wallet A holds 0xAAA (100, worth 50), wallet B holds 0xaaa (50, worth 25)
TwoWalletScenario ==
  UserBalance(<< Wallet(<< Alpha("0xAAA", Qty(100), Usd(50)) >>),
                 Wallet(<< Alpha("0xaaa", Qty(50), Usd(25)) >>) >>)

\* the index in flat of the first token of the contract of flat[n]
FirstOfContract(flat, n) ==
  CHOOSE m \in 1..n :
    /\ ToLowerCase(flat[m].token_address) = ToLowerCase(flat[n].token_address)
    /\ \A l \in 1..(m - 1) :
         ToLowerCase(flat[l].token_address) # ToLowerCase(flat[n].token_address)

\* C4 as claimed: the two-wallet scenario returns one holding of contract
\* "0xaaa" with balance 150 and value 75, and a merged holding's contract
\* address is reported in lower case
C4_MergedAddressIsLowercase ==
  /\ Resolved /\ response = TwoWalletScenario =>
       /\ Len(tokens) = 1
       /\ tokens[1].token_address = "0xaaa"
       /\ tokens[1].balance = "150"
       /\ tokens[1].value_usd = Int2Num(75)
  /\ pc = "logos" =>
       \A g \in 1..Len(aggregatedTokens) :
         aggregatedTokens[g].token_address = ToLowerCase(aggregatedTokens[g].token_address)

\* C4 as amended: the two-wallet scenario returns one holding with balance 150
\* and value 75 whose contract address is "0xAAA", and a merged holding's
\* contract address is that of the first holding of the contract, as spelled
C4_MergedAddressIsFirstSeen ==
  /\ Resolved /\ response = TwoWalletScenario =>
       /\ Len(tokens) = 1
       /\ tokens[1].token_address = "0xAAA"
       /\ tokens[1].balance = "150"
       /\ tokens[1].value_usd = Int2Num(75)
  /\ pc = "logos" =>
       LET flat == Flat
       IN  \A n \in 1..Len(flat) :
             \E g \in 1..Len(aggregatedTokens) :
               /\ ToLowerCase(aggregatedTokens[g].token_address) = ToLowerCase(flat[n].token_address)
               /\ aggregatedTokens[g].token_address = flat[FirstOfContract(flat, n)].token_address

\* the call has returned for the two-wallet scenario
C4_Witness ==
  /\ Resolved
  /\ response = TwoWalletScenario
  /\ Len(tokens) = 1

\* a holding record with every missing field replaced by its default and
\* every absent or unparseable quantity replaced by zero
DefaultedHolding(h) ==
  LET in_token == Field(h.balance, "in_token")
      in_usdc  == Field(h.balance, "in_usdc")
  IN  Holding(TokenInfo(Some(StrOr(Field(h.token, "name"),
                                   StrOr(Field(h.token, "symbol"), "Unknown"))),
                        Some(StrOr(Field(h.token, "symbol"), "UNKNOWN")),
                        Some(StrOr(Field(h.token, "contract_address"), "native"))),
              Balance(IF in_token = Undefined
                         \/ ParseFloat(JsToString(in_token[1])) = NaN
                      THEN Some(JsNumber(Zero)) ELSE in_token,
                      IF in_usdc = Undefined \/ in_usdc[1].nan
                      THEN Some(Zero) ELSE in_usdc))

DefaultedWallet(w) ==
  LET hs == IF w.token_balances = Undefined THEN << >> ELSE w.token_balances[1]
  IN  Wallet([i \in 1..Len(hs) |-> DefaultedHolding(hs[i])])

\* the response with every holding record defaulted
DefaultedResponse(r) ==
  LET ws == addressBalancesOf(r)
  IN  UserBalance([i \in 1..Len(ws) |-> DefaultedWallet(ws[i])])

\* C9: a response with malformed holding records never sets error, and what
\* is returned is what is returned for the same response with every bad
\* field replaced by a zero or default value
C9_MalformedAsZeros ==
  Resolved /\ ~NoBalanceData(response) =>
    /\ result[1].error = Undefined
    /\ \E dex \in DexOutcomes :
         result[1] =
           ResultOf(fid,
                    PopulateLogos(
                      Aggregate(allTokensOf(addressBalancesOf(DefaultedResponse(response)),
                                            bankrAddresses)),
                      dex))

\* value / balance > 1,000,000 for a whole balance > 0, by multiplication;
\* a balance above 2147 has a lower price for every value below 2^31
PriceAboveMillion(value, balance) ==
  /\ ~value.nan /\ ~balance.nan
  /\ balance.w > 0 /\ balance.w <= 2147
  /\ \/ value.w > MaxPricePerToken * balance.w
     \/ value.w = MaxPricePerToken * balance.w /\ value.n > 0

\* a predicate of the scam filter other than the price per token matches
OtherScamPredicate(t) ==
  LET name   == ToLowerCase(t.token_name)
      symbol == ToLowerCase(t.token_symbol)
  IN  \/ BlockedContract(ToLowerCase(t.token_address))
      \/ name \in ScamNames
      \/ symbol \in ScamSymbols \cup StakingSymbols
      \/ \E keyword \in StakingNameKeywords : Includes(name, keyword)
      \/ \E keyword \in SuspiciousKeywords :
           Includes(name, keyword) \/ Includes(symbol, keyword)
      \/ ImpossiblyValued(OrZero(t.value_usd), OrZero(ParseFloat(t.balance)))

\* the aggregated token t is among the tokens returned
IsReturned(t) == \E i \in 1..Len(tokens) : tokens[i].token_address = t.token_address

\* C11: an aggregated holding with a positive balance and a price per token
\* above 1,000,000 is not returned; one with a price per token of at most
\* 1,000,000 that has a value and matches no other scam predicate is
\* returned, when at most 20 holdings pass the filters
C11_OvervaluedPerTokenExcluded ==
  Resolved =>
    LET uncut == Cardinality(Survivors) <= TopN
    IN  \A g \in 1..Len(aggregatedTokens) :
          LET t == aggregatedTokens[g]
              over == PriceAboveMillion(OrZero(t.value_usd), OrZero(ParseFloat(t.balance)))
          IN  /\ over => ~IsReturned(t)
              /\ ~over /\ uncut /\ KeptByValueFilter(t) /\ ~OtherScamPredicate(t)
                   => IsReturned(t)

\* 1000 tokens worth 2,000,000,000, merged from two wallets, are not returned
\* while the other holding is
C11_Witness ==
  /\ Resolved
  /\ ~NoBalanceData(response)
  /\ Len(Flat) = 3
  /\ Len(aggregatedTokens) = 2
  /\ aggregatedTokens[1].balance = "1000"
  /\ aggregatedTokens[1].value_usd = Int2Num(2000000000)
  /\ Len(tokens) = 1
  /\ tokens[1].token_symbol = "BETA"

\* what a Bankr wallet address holds on Base: 7 ZETA worth 70
BankrWalletOf(address) ==
  Wallet(<< Holding(TokenInfo(Some("Zeta"), Some("ZETA"), Some("0xB0B")),
                    Balance(Qty(7), Usd(70))) >>)

\* the wallets of the Bankr addresses of the call
BankrWallets == [i \in 1..Len(bankrAddresses) |-> BankrWalletOf(bankrAddresses[i])]

\* C13: with a non-empty bankrAddresses, what is returned is the aggregation
\* of the holdings of the verified addresses together with the holdings of
\* the Bankr wallets
C13_BankrHoldingsAggregated ==
  Resolved /\ ~NoBalanceData(response) /\ Len(bankrAddresses) > 0 =>
    \E dex \in DexOutcomes :
      result[1] =
        ResultOf(fid,
                 PopulateLogos(
                   Aggregate(Flatten(addressBalancesOf(response)) \o Flatten(BankrWallets)),
                   dex))

\* the index in allTokens of the first token of the contract of t
FirstSeen(t) ==
  CHOOSE n \in 1..Len(Flat) :
    /\ ToLowerCase(Flat[n].token_address) = ToLowerCase(t.token_address)
    /\ \A m \in 1..(n - 1) :
         ToLowerCase(Flat[m].token_address) # ToLowerCase(t.token_address)

\* C18: two returned holdings of equal value_usd are in the order in which
\* their contracts were first encountered when flattening
C18_TiesKeepFirstSeenOrder ==
  Resolved /\ ~NoBalanceData(response) =>
    \A i, j \in 1..Len(tokens) :
      i < j /\ OrZero(tokens[i].value_usd) = OrZero(tokens[j].value_usd)
        => FirstSeen(tokens[i]) < FirstSeen(tokens[j])

\* BETA, seen first, is returned before ALPHA of equal value, seen second
C18_Witness ==
  /\ Resolved
  /\ ~NoBalanceData(response)
  /\ Len(tokens) = 2
  /\ tokens[1].token_symbol = "BETA" /\ tokens[2].token_symbol = "ALPHA"
  /\ tokens[1].value_usd = tokens[2].value_usd
  /\ Flat[1].token_symbol = "BETA"

\* the upstream holdings in the order of allTokens
RECURSIVE RawHoldings(_)
RawHoldings(addressBalances) ==
  IF addressBalances = << >> THEN << >>
  ELSE (IF Head(addressBalances).token_balances = Undefined THEN << >>
        ELSE Head(addressBalances).token_balances[1])
       \o RawHoldings(Tail(addressBalances))

Raw == RawHoldings(addressBalancesOf(response))

\* the upstream holdings of the contract of t that have a non-empty field f
\* in their token object
SourcesWith(t, f) ==
  { n \in 1..Len(Raw) :
      /\ ToLowerCase(Flat[n].token_address) = ToLowerCase(t.token_address)
      /\ StrOr(Field(Raw[n].token, f), "") # "" }

\* the field f of the first of them
FirstNonEmpty(t, f) ==
  LET n == CHOOSE k \in SourcesWith(t, f) : \A m \in SourcesWith(t, f) : k <= m
  IN  Raw[n].token[1][f][1]

\* C19: an aggregated holding carries the first non-empty name and the first
\* non-empty symbol among its source holdings
C19_MergedKeepsFirstNonEmptyName ==
  pc = "logos" =>
    \A g \in 1..Len(aggregatedTokens) :
      LET t == aggregatedTokens[g]
      IN  /\ SourcesWith(t, "name") # {} => t.token_name = FirstNonEmpty(t, "name")
          /\ SourcesWith(t, "symbol") # {} => t.token_symbol = FirstNonEmpty(t, "symbol")

\* the price of one mintedmerch token is 4235 billionths of a dollar: the
\* value of b tokens
FixedPriceValue(b) ==
  IF b.nan THEN NaN
  ELSE Num((b.w * MintedMerchPriceNano) \div NANO, (b.w * MintedMerchPriceNano) % NANO)

\* C20: a holding of the allow-listed contract without value is returned,
\* unless the scam filter or the cut to 20 drops it, with its balance times
\* the fixed price for value; one with a value keeps its value
C20_AllowListedValueRecomputed ==
  Resolved /\ ~NoBalanceData(response) =>
    \A g \in 1..Len(aggregatedTokens) :
      LET t     == aggregatedTokens[g]
          key   == ToLowerCase(t.token_address)
          given == MemberValueSum(Flat, key, Len(Flat))
      IN  key = MintedMerchAddress =>
            /\ t.value_usd = IF given = Zero
                             THEN FixedPriceValue(ParseFloat(t.balance))
                             ELSE given
            /\ ~OtherScamPredicate(t) /\ Cardinality(Survivors) <= TopN
                 /\ ~PriceAboveMillion(OrZero(t.value_usd), OrZero(ParseFloat(t.balance)))
                 => \E i \in 1..Len(tokens) : tokens[i] = t

\* 150000 tokens of the allow-listed contract, in upper case and without
\* value, are returned with value 0.63525
C20_Witness ==
  /\ Resolved
  /\ ~NoBalanceData(response)
  /\ \E n \in 1..Len(Flat) :
       /\ Flat[n].token_address = MintedMerchUpper
       /\ Flat[n].value_usd = Zero
  /\ \E i \in 1..Len(tokens) :
       /\ ToLowerCase(tokens[i].token_address) = MintedMerchAddress
       /\ tokens[i].balance = "150000"
       /\ tokens[i].value_usd = Num(0, 635250000)

\* the sum of value_usd over the first k tokens shown in the image
RECURSIVE ShownSum(_, _)
ShownSum(shown, k) ==
  IF k = 0 THEN Zero
  ELSE NumAdd(ShownSum(shown, k - 1),
              IF shown[k].value_usd = Undefined THEN Zero ELSE shown[k].value_usd[1])

\* C14: the portfolio total in the header of the share image is the sum of
\* value_usd of the tokens shown in the image
C14_ShareImageTotalIsSumOfShown ==
  shareImage # Undefined =>
    shareImage[1].header =
      formatUsd(Some(ShownSum(shareImage[1].topTokens, Len(shareImage[1].topTokens))))

\* C15: once loading has finished, a result with an error and tokens is
\* rendered as the holdings list; an error with no data or with no tokens is
\* rendered as nothing; and nothing but the loading skeleton, nothing and the
\* holdings list is ever rendered
C15_ErrorsDegradeGracefully ==
  LET c == component
      withError == StrOr(c.error, "") # ""
      noTokens  == c.balanceData = Undefined \/ Len(c.balanceData[1].tokens) = 0
  IN  /\ Render(c).view \in {"loading", "nothing", "holdings"}
      /\ ~c.loading /\ withError /\ ~noTokens =>
           /\ Render(c).view = "holdings"
           /\ Render(c).rows = c.balanceData[1].tokens
      /\ ~c.loading /\ withError /\ noTokens => Render(c).view = "nothing"

\* the second run of the effect has ended with a result that carries an
\* error and no tokens, and nothing is rendered
C15_Witness ==
  /\ ~component.loading
  /\ component.error = Some("Request failed with status code 500")
  /\ component.balanceData # Undefined
  /\ Len(component.balanceData[1].tokens) = 0
  /\ component.effects = 2
  /\ Render(component).view = "nothing"

\* the aggregated tokens of a call c by its own response alone
GroupsAlone(c) ==
  Aggregate(allTokensOf(addressBalancesOf(c.response), c.bankrAddresses))

\* what the call c returns when it runs alone with the same arguments, the
\* same outcome of the balance fetch and the same answers to its lookups
ResultAlone(c) ==
  IF c.thrown # Undefined THEN ErrorResult(c.fid, c.thrown[1])
  ELSE IF NoBalanceData(c.response) THEN Result(c.fid, << >>, Zero, Undefined)
  ELSE LET groups == GroupsAlone(c)
       IN  ResultOf(c.fid,
                    [i \in 1..Len(groups) |->
                       [groups[i] EXCEPT !.logo_url =
                          getTokenLogoUrl(groups[i].token_address,
                                          groups[i].token_symbol, c.answers[i])]])

\* the call c has returned after its balance fetch resolved with data
ReturnedTokens(c) ==
  c.pc = "done" /\ c.thrown = Undefined /\ ~NoBalanceData(c.response)

C16_ConcurrentCallsIndependent ==
  \A p \in 1..2 :
    /\ calls[p].pc = "done" => calls[p].result = Some(ResultAlone(calls[p]))
    /\ calls[p].pc = "start" =>
         /\ \A r \in PairResponses :
              \E groups \in {IF NoBalanceData(r) THEN << >>
                              ELSE Aggregate(allTokensOf(addressBalancesOf(r),
                                                         calls[p].bankrAddresses))} :
                ENABLED CallFetchResolvesWith(p, r, groups)
         /\ \A e \in Rejections : ENABLED CallFetchRejects(p, e)
    /\ calls[p].pc = "logos" =>
         /\ \A i \in calls[p].pending, dex \in DexOutcomes :
              \E logoUrl \in {getTokenLogoUrl(calls[p].aggregatedTokens[i].token_address,
                                               calls[p].aggregatedTokens[i].token_symbol,
                                               dex)} :
                ENABLED LogoLookupSettlesWith(p, i, dex, logoUrl)
         /\ calls[p].pending = {} =>
              \E filteredTokens \in {AfterValueFilter(calls[p].aggregatedTokens)},
                 returned \in {ResultOf(calls[p].fid, calls[p].aggregatedTokens)} :
                ENABLED CallReturnsWith(p, filteredTokens, returned)

\* the two calls, for different fids and with different responses, have
\* returned their tokens, each having started while the other awaited its
\* logo lookups or before
C16_Witness ==
  /\ ReturnedTokens(calls[1]) /\ ReturnedTokens(calls[2])
  /\ calls[1].fid # calls[2].fid
  /\ calls[2].overlap
  /\ Len(calls[1].result[1].tokens) = 1
  /\ Len(calls[2].result[1].tokens) = 2
  /\ calls[1].result[1].tokens[1].token_symbol = "ALPHA"
  /\ calls[2].result[1].tokens[1].token_symbol = "ETH"

\* tokens without their logo_url
WithoutLogos(ts) == [i \in 1..Len(ts) |-> [ts[i] EXCEPT !.logo_url = Undefined]]

\* C17: whatever the lookups come to, a call returns without error the
\* tokens, in the order, with the balances, values and total that it returns
\* when every lookup succeeds; and the lookup of a token writes the logo_url
\* of that token and nothing else
C17_LogoFailuresAreLocal ==
  \A p \in 1..2 :
    LET c == calls[p]
    IN  /\ ReturnedTokens(c) =>
             LET allFound == ResultAlone([c EXCEPT !.answers =
                                            [i \in 1..Len(c.answers) |-> "image"]])
             IN  /\ c.result[1].error = Undefined
                 /\ WithoutLogos(c.result[1].tokens) = WithoutLogos(allFound.tokens)
                 /\ c.result[1].total_value_usd = allFound.total_value_usd
        /\ c.pc = "logos" =>
             LET groups == GroupsAlone(c)
             IN  /\ Len(c.aggregatedTokens) = Len(groups)
                 /\ \A i \in 1..Len(groups) :
                      c.aggregatedTokens[i] =
                        [groups[i] EXCEPT !.logo_url =
                           IF i \in c.pending THEN Undefined
                           ELSE getTokenLogoUrl(groups[i].token_address,
                                                groups[i].token_symbol, c.answers[i])]

\* a call has returned two tokens though the DexScreener request of the
\* lookup of the first failed
C17_Witness ==
  \E p \in 1..2 :
    /\ ReturnedTokens(calls[p])
    /\ calls[p].answers = << "throws", "image" >>
    /\ Len(calls[p].result[1].tokens) = 2
    /\ calls[p].result[1].tokens[1].token_symbol = "BETA"
    /\ calls[p].result[1].tokens[1].logo_url # calls[p].result[1].tokens[2].logo_url

-----------------------------------------------------------------------------
(* The allow-list and the scam filter *)

\* C21: a holding of the allow-listed contract, with its value or its
\* fallback value, that matches a predicate of the scam filter is not
\* returned; one that matches none is returned even without value, when at
\* most 20 holdings pass the filters
C21_AllowListedStillScamFiltered ==
  Resolved =>
    LET uncut == Cardinality(Survivors) <= TopN
    IN  \A g \in 1..Len(aggregatedTokens) :
          LET t    == aggregatedTokens[g]
              scam == \/ OtherScamPredicate(t)
                      \/ PriceAboveMillion(OrZero(t.value_usd),
                                           OrZero(ParseFloat(t.balance)))
          IN  ToLowerCase(t.token_address) = MintedMerchAddress =>
                /\ scam => ~IsReturned(t)
                /\ ~scam /\ uncut => IsReturned(t)

\* one token of the allow-listed contract worth 20,000,000, or seven under a
\* name with a suspicious keyword and without value, is not returned while
\* the other holding is
C21_Witness ==
  /\ Resolved
  /\ Len(aggregatedTokens) = 2
  /\ ToLowerCase(aggregatedTokens[1].token_address) = MintedMerchAddress
  /\ \/ aggregatedTokens[1].value_usd = Int2Num(20000000)
     \/ aggregatedTokens[1].token_name = "Claim Merch"
  /\ Len(tokens) = 1
  /\ tokens[1].token_symbol = "BETA"

-----------------------------------------------------------------------------
(* Scam names and symbols *)

\* s without its leading spaces
RECURSIVE TrimStart(_)
TrimStart(s) ==
  IF Len(s) > 0 /\ SubSeq(s, 1, 1) = " " THEN TrimStart(SubSeq(s, 2, Len(s))) ELSE s

\* s without its trailing spaces
RECURSIVE TrimEnd(_)
TrimEnd(s) ==
  IF Len(s) > 0 /\ SubSeq(s, Len(s), Len(s)) = " " THEN TrimEnd(SubSeq(s, 1, Len(s) - 1))
  ELSE s

\* s lowercased, without surrounding whitespace
LowerTrimmed(s) == TrimEnd(TrimStart(ToLowerCase(s)))

\* C22: no token returned has a name or a symbol that, lowercased and
\* trimmed, is an entry of the scam names or of the scam symbols
C22_ScamNameOrSymbolDiscarded ==
  Resolved =>
    \A i \in 1..Len(tokens) :
      /\ LowerTrimmed(tokens[i].token_name) \notin ScamNames
      /\ LowerTrimmed(tokens[i].token_symbol) \notin ScamSymbols

-----------------------------------------------------------------------------
(* The error field *)

\* C26: a result with an error has no tokens and a total of 0
C26_ErrorOnlyWithEmptyResult ==
  Returned /\ result[1].error # Undefined =>
    /\ result[1].tokens = << >>
    /\ result[1].total_value_usd = Zero

\* the fetch for fid 194 rejected with something that is not an Error and
\* the call returned the fixed message, no tokens and a total of 0
C26_Witness ==
  /\ Returned
  /\ fid = 194
  /\ thrown # Undefined
  /\ ~thrown[1].isError
  /\ result[1].error = Some("Failed to fetch token balances")
  /\ result[1].tokens = << >>

-----------------------------------------------------------------------------
(* Positive values *)

\* C27: every token returned has a value_usd above 0; the total is not
\* negative and is 0 only when no token is returned
C27_ReturnedValuesPositive ==
  Returned =>
    /\ \A i \in 1..Len(tokens) : NumGt(tokens[i].value_usd, Zero)
    /\ ~NumLt(result[1].total_value_usd, Zero)
    /\ result[1].total_value_usd = Zero => tokens = << >>

-----------------------------------------------------------------------------
(* lib/validation *)

HexChars == "0123456789abcdefABCDEF"
Base58Chars == "123456789ABCDEFGHJKLMNPQRSTUVWXYZabcdefghijkmnopqrstuvwxyz"
FarcasterChars == LowerChars \o UpperChars \o Digits \o "._-"
XChars == LowerChars \o UpperChars \o Digits \o "_"

\* every character of s is one of chars
AllIn(s, chars) ==
  LET set == { SubSeq(chars, i, i) : i \in 1..Len(chars) }
  IN  \A i \in 1..Len(s) : SubSeq(s, i, i) \in set

\* String.prototype.trim, for strings whose whitespace is spaces
Trim(s) == TrimEnd(TrimStart(s))

\* /^0x[a-fA-F0-9]{40}$/
isValidEthereumAddress(address) ==
  /\ Len(address) = 42
  /\ SubSeq(address, 1, 2) = "0x"
  /\ AllIn(SubSeq(address, 3, 42), HexChars)

\* /^[1-9A-HJ-NP-Za-km-z]{32,44}$/
isValidSolanaAddress(address) ==
  Len(address) >= 32 /\ Len(address) <= 44 /\ AllIn(address, Base58Chars)

\* /^[a-zA-Z0-9._-]{1,15}(\.eth)?$/
isValidFarcasterUsername(username) ==
  LET n == Len(username)
  IN  \/ n >= 1 /\ n <= 15 /\ AllIn(username, FarcasterChars)
      \/ /\ n >= 5 /\ n <= 19
         /\ SubSeq(username, n - 3, n) = ".eth"
         /\ AllIn(SubSeq(username, 1, n - 4), FarcasterChars)

\* /^\d+$/.test(fid) && parseInt(fid) > 0
isValidFID(f) ==
  /\ Len(f) >= 1
  /\ AllIn(f, Digits)
  /\ \E i \in 1..Len(f) : SubSeq(f, i, i) # "0"

\* /^[a-zA-Z0-9_]{1,15}$/
isValidXUsername(username) ==
  Len(username) >= 1 /\ Len(username) <= 15 /\ AllIn(username, XChars)

\* what a validation function returns, or that it throws
Validation(isValid, type, error) ==
  [isValid |-> isValid, type |-> type, error |-> error, throws |-> FALSE]
ValidationThrows ==
  [isValid |-> FALSE, type |-> "null", error |-> Undefined, throws |-> TRUE]

validateWalletAddress(address) ==
  IF address = "" \/ Len(Trim(address)) = 0
  THEN Validation(FALSE, "null", Some("Address is required"))
  ELSE IF isValidEthereumAddress(Trim(address)) THEN Validation(TRUE, "ethereum", Undefined)
  ELSE IF isValidSolanaAddress(Trim(address)) THEN Validation(TRUE, "solana", Undefined)
  ELSE Validation(FALSE, "null",
         Some("Invalid address format. Must be a valid Ethereum (0x...) or Solana address."))

validateUsername(username) ==
  IF username = "" \/ Len(Trim(username)) = 0
  THEN Validation(FALSE, "null", Some("Username is required"))
  ELSE IF isValidFarcasterUsername(Trim(username))
  THEN Validation(TRUE, "farcaster", Undefined)
  ELSE Validation(FALSE, "null",
         Some("Invalid username format. Must be a valid Farcaster username (1-15 characters, alphanumeric, ., -, _)."))

\* null, as an element of a JSON array
JsNull == [t |-> "null", num |-> Zero, str |-> ""]

\* validateAddressOrUsername on a value of the request: a falsy value is
\* required, a string is classified, any other value has no trim to call
validateAddressOrUsername(input) ==
  IF \/ input.t = "null"
     \/ input.t = "number" /\ ~Truthy(input.num)
     \/ input.t = "string" /\ input.str = ""
  THEN Validation(FALSE, "null", Some("Input is required"))
  ELSE IF input.t # "string" THEN ValidationThrows
  ELSE IF Len(Trim(input.str)) = 0 THEN Validation(FALSE, "null", Some("Input is required"))
  ELSE LET trimmedInput       == Trim(input.str)
           addressValidation  == validateWalletAddress(trimmedInput)
           usernameValidation == validateUsername(trimmedInput)
       IN  IF addressValidation.isValid THEN addressValidation
           ELSE IF isValidFID(trimmedInput) THEN Validation(TRUE, "fid", Undefined)
           ELSE IF usernameValidation.isValid THEN usernameValidation
           ELSE IF isValidXUsername(trimmedInput)
           THEN Validation(TRUE, "x_username", Undefined)
           ELSE Validation(FALSE, "null",
                  Some("Invalid format. Must be a valid wallet address (Ethereum/Solana), Farcaster username, FID, or X username."))

-----------------------------------------------------------------------------
(* POST /api/search *)

\* the most inputs of a request
MaxInputs == 2

\* the values sent as elements of inputs: an Ethereum address, a Solana
\* address, usernames, an FID, strings of no accepted format, blanks, a number
\* and null
InputValues ==
  << JsString("0x1111111111111111111111111111111111111111"),
     JsString("So11111111111111111111111111111111111111112"),
     JsString("dwr"),
     JsString("vitalik.eth"),
     JsString(" jack_x "),
     JsString("194"),
     JsString("bad input!"),
     JsString("abcdefghijklmnop"),
     JsString("   "),
     JsNumber(Int2Num(123)),
     JsNull >>

\* the sequences of at most n of them
RECURSIVE InputSeqs(_)
InputSeqs(n) ==
  IF n = 0 THEN { << >> }
  ELSE LET shorter == InputSeqs(n - 1)
       IN  shorter \cup { Append(xs, InputValues[i]) :
                            xs \in { x \in shorter : Len(x) = n - 1 },
                            i \in 1..Len(InputValues) }

\* the inputs value of the request body: absent, a string, or an array
SearchBodies ==
  { [t |-> "undefined", items |-> << >>], [t |-> "string", items |-> << >>] }
    \cup { [t |-> "array", items |-> xs] : xs \in InputSeqs(MaxInputs) }

\* the Farcaster user found for an input
UserOf(input) ==
  [ fid |-> CHOOSE i \in 1..Len(InputValues) : InputValues[i].str = input,
    username |-> "user-of-" \o Trim(input) ]

SearchResponse(status, error, invalidInputs, results, details) ==
  [status |-> status, error |-> error, invalidInputs |-> invalidInputs,
   results |-> results, details |-> details]

\* the inputs of the validation results that satisfy Keep, in order
RECURSIVE InputsOfType(_, _, _)
InputsOfType(items, types, k) ==
  IF k = 0 THEN << >>
  ELSE LET before == InputsOfType(items, types, k - 1)
       IN  IF validateAddressOrUsername(items[k]).type \in types
           THEN Append(before, items[k].str) ELSE before

\* invalidInputs.map(result => ({ input, error }))
RECURSIVE InvalidInputs(_, _)
InvalidInputs(items, k) ==
  IF k = 0 THEN << >>
  ELSE LET before == InvalidInputs(items, k - 1)
           v      == validateAddressOrUsername(items[k])
       IN  IF ~v.isValid THEN Append(before, [input |-> items[k], error |-> v.error])
           ELSE before

\* the searches of the handler, in the order of its if statements
Stages == << "addresses", "usernames", "fids", "xUsernames", "ambiguous" >>

StageArgs(s, stage) ==
  CASE stage = "addresses"  -> s.addresses
    [] stage = "usernames"  -> s.usernames
    [] stage = "fids"       -> s.fids
    [] stage = "xUsernames" -> s.xUsernames
    [] stage = "ambiguous"  -> s.ambiguousUsernames
    [] stage = "ambiguousX" -> s.notFoundAsFarcaster

StageFn(stage) ==
  CASE stage = "addresses"  -> "searchUsersByAddresses"
    [] stage = "usernames"  -> "searchUsersByUsernames"
    [] stage = "fids"       -> "searchUsersByFIDs"
    [] stage = "xUsernames" -> "searchUsersByXUsernames"
    [] stage = "ambiguous"  -> "searchUsersByUsernames"
    [] stage = "ambiguousX" -> "searchUsersByXUsernames"

StageIndex(stage) ==
  IF stage = "ambiguousX" THEN Len(Stages)
  ELSE CHOOSE k \in 1..Len(Stages) : Stages[k] = stage

\* allUsers.filter((user, index, self) => index === self.findIndex(u => u.fid === user.fid))
uniqueUsersOf(allUsers) ==
  SelectSeq([i \in 1..Len(allUsers) |-> [user |-> allUsers[i], index |-> i]],
            LAMBDA e : \A j \in 1..(e.index - 1) : allUsers[j].fid # e.user.fid)

\* the handler goes on to the first search from the k-th on that has inputs
\* and awaits it; with none left, to the Bankr lookups of the unique users
RECURSIVE Proceed(_, _)
Proceed(s, k) ==
  IF k > Len(Stages)
  THEN LET uniqueUsers == uniqueUsersOf(s.allUsers)
       IN  [s EXCEPT !.pc = "enhance",
                     !.lookups = @ \o [i \in 1..Len(uniqueUsers) |->
                                         [fn |-> "getBankrWalletData",
                                          args |-> << uniqueUsers[i].user.username >>]]]
  ELSE IF StageArgs(s, Stages[k]) # << >>
  THEN [s EXCEPT !.pc = Stages[k],
                 !.lookups = Append(@, [fn |-> StageFn(Stages[k]),
                                        args |-> StageArgs(s, Stages[k])])]
  ELSE Proceed(s, k + 1)

\* the inputs separated by type, and the first search awaited
Categorise(s, items) ==
  Proceed([s EXCEPT
    !.addresses = InputsOfType(items, {"ethereum", "solana"}, Len(items)),
    !.usernames = InputsOfType(items, {"farcaster"}, Len(items)),
    !.fids = InputsOfType(items, {"fid"}, Len(items)),
    !.xUsernames = InputsOfType(items, {"x_username"}, Len(items)),
    !.ambiguousUsernames = InputsOfType(items, {"username"}, Len(items))], 1)

\* the response to a request whose inputs value is no array or is empty
NoInputsResponse ==
  SearchResponse(400,
    Some("Please provide an array of wallet addresses, usernames, FIDs, or X usernames"),
    Undefined, Undefined, Undefined)

\* the response to a request with invalid inputs
InvalidInputsResponse(items) ==
  SearchResponse(400, Some("Invalid inputs provided"),
                 Some(InvalidInputs(items, Len(items))), Undefined, Undefined)

\* the response of the catch clause of the handler
FailureResponse(message) ==
  SearchResponse(500, Some("Failed to search for users"), Undefined, Undefined,
                 Some(message))

\* as Post, rejecting the request only when no input is valid
PostSearchingValidInputs(inputs) ==
  /\ search.pc = "idle"
  /\ search' =
       LET items == inputs.items
           results == [i \in 1..Len(items) |-> validateAddressOrUsername(items[i])]
           received == [search EXCEPT !.inputs = Some(inputs)]
       IN  IF inputs.t # "array" \/ Len(items) = 0
           THEN [received EXCEPT !.pc = "responded", !.response = Some(NoInputsResponse)]
           ELSE IF \E i \in 1..Len(items) : results[i].throws
           THEN [received EXCEPT !.pc = "responded", !.response =
                   Some(FailureResponse("input.trim is not a function"))]
           ELSE IF \A i \in 1..Len(items) : ~results[i].isValid
           THEN [received EXCEPT !.pc = "responded",
                                 !.response = Some(InvalidInputsResponse(items))]
           ELSE Categorise(received, items)
  /\ UNCHANGED <<pc, fid, bankrAddresses, response, thrown, aggregatedTokens, result,
                 shareImage, component, calls, userSearch, r2, addressInput, balanceView>>

\* the handler, from the request to its first await or to its response
Post(inputs) ==
  /\ search.pc = "idle"
  /\ search' =
       LET items == inputs.items
           results == [i \in 1..Len(items) |-> validateAddressOrUsername(items[i])]
           received == [search EXCEPT !.inputs = Some(inputs)]
       IN  IF inputs.t # "array" \/ Len(items) = 0
           THEN [received EXCEPT !.pc = "responded", !.response = Some(NoInputsResponse)]
           ELSE IF \E i \in 1..Len(items) : results[i].throws
           THEN [received EXCEPT !.pc = "responded", !.response =
                   Some(FailureResponse("input.trim is not a function"))]
           ELSE IF \E i \in 1..Len(items) : ~results[i].isValid
           THEN [received EXCEPT !.pc = "responded",
                                 !.response = Some(InvalidInputsResponse(items))]
           ELSE Categorise(received, items)
  /\ UNCHANGED <<pc, fid, bankrAddresses, response, thrown, aggregatedTokens, result,
                 shareImage, component, calls, userSearch, r2, addressInput, balanceView>>

\* the inputs at the indices of found, and the others, in order
Picked(args, found) ==
  SelectSeq([i \in 1..Len(args) |-> [arg |-> args[i], index |-> i]],
            LAMBDA e : e.index \in found)
NotPicked(args, found) ==
  SelectSeq([i \in 1..Len(args) |-> [arg |-> args[i], index |-> i]],
            LAMBDA e : e.index \notin found)

\* the search awaited by the handler returns, having found users for the
\* inputs at the indices of found: the handler collects its results and goes
\* on
SearchReturns(found) ==
  /\ search.pc \in { Stages[k] : k \in 1..Len(Stages) } \cup { "ambiguousX" }
  /\ found \subseteq 1..Len(StageArgs(search, search.pc))
  /\ search' =
       LET args     == StageArgs(search, search.pc)
           picked   == Picked(args, found)
           missed   == NotPicked(args, found)
           users    == [i \in 1..Len(picked) |-> UserOf(picked[i].arg)]
           notFound == [i \in 1..Len(missed) |-> missed[i].arg]
           collected == [search EXCEPT !.allUsers = @ \o users,
                                       !.allSearchedInputs = @ \o args]
       IN  IF search.pc = "ambiguous"
           THEN IF notFound # << >>
                THEN [collected EXCEPT
                        !.notFoundAsFarcaster = notFound,
                        !.pc = "ambiguousX",
                        !.lookups = Append(@, [fn |-> StageFn("ambiguousX"),
                                               args |-> notFound])]
                ELSE Proceed(collected, Len(Stages) + 1)
           ELSE Proceed([collected EXCEPT !.allNotFoundInputs = @ \o notFound],
                        StageIndex(search.pc) + 1)
  /\ UNCHANGED <<pc, fid, bankrAddresses, response, thrown, aggregatedTokens, result,
                 shareImage, component, calls, userSearch, r2, addressInput, balanceView>>

\* searchUsersByAddresses or searchUsersByFIDs throws: the catch clause of
\* the handler responds
SearchThrows ==
  /\ search.pc \in {"addresses", "fids"}
  /\ search' = [search EXCEPT !.pc = "responded", !.response =
       Some(FailureResponse("Failed to search users: fetch failed"))]
  /\ UNCHANGED <<pc, fid, bankrAddresses, response, thrown, aggregatedTokens, result,
                 shareImage, component, calls, userSearch, r2, addressInput, balanceView>>

\* the Bankr lookups have settled, with data or with null: the response
Enhanced(bankr) ==
  /\ search.pc = "enhance"
  /\ search' =
       LET uniqueUsers == uniqueUsersOf(search.allUsers)
       IN  [search EXCEPT !.pc = "responded", !.response =
             Some(SearchResponse(200, Undefined, Undefined,
               Some([users |-> [i \in 1..Len(uniqueUsers) |->
                                  [fid |-> uniqueUsers[i].user.fid,
                                   username |-> uniqueUsers[i].user.username,
                                   bankrData |-> bankr]],
                     searchedInputs |-> search.allSearchedInputs,
                     notFoundInputs |-> search.allNotFoundInputs]),
               Undefined))]
  /\ UNCHANGED <<pc, fid, bankrAddresses, response, thrown, aggregatedTokens, result,
                 shareImage, component, calls, userSearch, r2, addressInput, balanceView>>

NextSearch ==
  \/ \E inputs \in SearchBodies : Post(inputs)
  \/ \E found \in SUBSET (1..MaxInputs) : SearchReturns(found)
  \/ SearchThrows
  \/ \E bankr \in BOOLEAN : Enhanced(bankr)

SpecSearch == Init /\ [][NextSearch]_vars

-----------------------------------------------------------------------------
(* Validation before the searches *)

\* the request has been answered
Responded == search.pc = "responded"

\* the elements of the inputs array of the request
Items == search.inputs[1].items

\* the request has no array of inputs, or an empty one
NoInputs == search.inputs[1].t # "array" \/ Len(Items) = 0

-----------------------------------------------------------------------------
(* Usernames on X *)

\* the input was looked up by the search function fn
LookedUpBy(input, fn) ==
  \E k \in 1..Len(search.lookups) :
    /\ search.lookups[k].fn = fn
    /\ \E j \in 1..Len(search.lookups[k].args) : search.lookups[k].args[j] = input

\* C24: a username reported in notFoundInputs was looked up as a Farcaster
\* username and then as an X username
C24_UsernameTriedOnXBeforeNotFound ==
  Responded /\ search.response[1].status = 200 =>
    LET notFoundInputs == search.response[1].results[1].notFoundInputs
    IN  \A k \in 1..Len(notFoundInputs) :
          validateAddressOrUsername(JsString(notFoundInputs[k])).type
              \in {"farcaster", "x_username", "username"}
            => /\ LookedUpBy(notFoundInputs[k], "searchUsersByUsernames")
               /\ LookedUpBy(notFoundInputs[k], "searchUsersByXUsernames")

-----------------------------------------------------------------------------
(* searchUsersByAddresses and searchUsersByFIDs *)

\* the most addresses or FIDs of a call
MaxArgs == 2

\* the calls: addresses in either case, FIDs
UserSearchCalls ==
  LET seqs(values) == { << values[i] >> : i \in 1..Len(values) }
                        \cup { << values[i], values[j] >> :
                                 i \in 1..Len(values), j \in 1..Len(values) }
  IN  { [fn |-> "searchUsersByAddresses", args |-> a] :
          a \in seqs(<< "0xAAA", "0xbbb" >>) }
        \cup { [fn |-> "searchUsersByFIDs", args |-> a] : a \in seqs(<< "194", "3" >>) }

\* what a request comes to: users for the arguments at the indices of found,
\* a response that cannot be read, a status that is not ok (REST only), or a
\* rejection
Found(found) == [kind |-> "found", found |-> found]
Unreadable == [kind |-> "unreadable", found |-> {}]
NotOk == [kind |-> "notOk", found |-> {}]
Rejected == [kind |-> "rejected", found |-> {}]

RequestFailed(outcome) == outcome.kind # "found"

\* the message of the error a failed request throws
MessageOf(outcome) ==
  CASE outcome.kind = "unreadable" -> "Cannot convert undefined or null to object"
    [] outcome.kind = "notOk"      -> "HTTP 500: Internal Server Error"
    [] outcome.kind = "rejected"   -> "fetch failed"

\* the result built from a response with users for the arguments at found:
\* the API names the addresses in lower case and the users by their fid
SearchResultOf(fn, args, found) ==
  LET picked == Picked(args, found)
      users  == [i \in 1..Len(picked) |->
                   [fid |-> IF fn = "searchUsersByFIDs"
                            THEN DigitsValue(picked[i].arg, Len(picked[i].arg))
                            ELSE 1000 + picked[i].index,
                    username |-> "user-of-" \o picked[i].arg]]
      foundKeys == IF fn = "searchUsersByFIDs"
                   THEN { NatToString(users[i].fid) : i \in 1..Len(users) }
                   ELSE { ToLowerCase(picked[i].arg) : i \in 1..Len(picked) }
      isFound(arg) == IF fn = "searchUsersByFIDs" THEN arg \in foundKeys
                      ELSE ToLowerCase(arg) \in foundKeys
  IN  [users |-> users, searched |-> args,
       notFound |-> SelectSeq(args, LAMBDA arg : ~isFound(arg))]

\* the function is called: the SDK request is made
CallUserSearch(call) ==
  /\ userSearch.pc = "idle"
  /\ userSearch' = [userSearch EXCEPT !.pc = "sdk", !.fn = call.fn, !.args = call.args,
                                      !.requests = << "sdk" >>]
  /\ UNCHANGED <<pc, fid, bankrAddresses, response, thrown, aggregatedTokens, result,
                 shareImage, component, calls, search, r2, addressInput, balanceView>>

\* as SdkSettles, without the fallback: a failure of the SDK is thrown
SdkSettlesWithoutFallback(outcome) ==
  /\ userSearch.pc = "sdk"
  /\ outcome.kind # "notOk"
  /\ outcome.found \subseteq 1..Len(userSearch.args)
  /\ userSearch' =
       IF RequestFailed(outcome)
       THEN [userSearch EXCEPT !.sdk = Some(outcome), !.pc = "thrown",
               !.thrown = Some("Failed to search users: " \o MessageOf(outcome))]
       ELSE [userSearch EXCEPT !.sdk = Some(outcome), !.pc = "returned",
               !.returned = Some(SearchResultOf(userSearch.fn, userSearch.args,
                                                outcome.found))]
  /\ UNCHANGED <<pc, fid, bankrAddresses, response, thrown, aggregatedTokens, result,
                 shareImage, component, calls, search, r2, addressInput, balanceView>>

\* the SDK request settles: the result is returned, or the inner catch clause
\* makes the REST request
SdkSettles(outcome) ==
  /\ userSearch.pc = "sdk"
  /\ outcome.kind # "notOk"
  /\ outcome.found \subseteq 1..Len(userSearch.args)
  /\ userSearch' =
       IF RequestFailed(outcome)
       THEN [userSearch EXCEPT !.sdk = Some(outcome), !.pc = "rest",
                               !.requests = Append(@, "rest")]
       ELSE [userSearch EXCEPT !.sdk = Some(outcome), !.pc = "returned",
               !.returned = Some(SearchResultOf(userSearch.fn, userSearch.args,
                                                outcome.found))]
  /\ UNCHANGED <<pc, fid, bankrAddresses, response, thrown, aggregatedTokens, result,
                 shareImage, component, calls, search, r2, addressInput, balanceView>>

\* the REST request settles: the result is returned, or the outer catch
\* clause throws
RestSettles(outcome) ==
  /\ userSearch.pc = "rest"
  /\ outcome.found \subseteq 1..Len(userSearch.args)
  /\ userSearch' =
       IF RequestFailed(outcome)
       THEN [userSearch EXCEPT !.rest = Some(outcome), !.pc = "thrown",
               !.thrown = Some("Failed to search users: " \o MessageOf(outcome))]
       ELSE [userSearch EXCEPT !.rest = Some(outcome), !.pc = "returned",
               !.returned = Some(SearchResultOf(userSearch.fn, userSearch.args,
                                                outcome.found))]
  /\ UNCHANGED <<pc, fid, bankrAddresses, response, thrown, aggregatedTokens, result,
                 shareImage, component, calls, search, r2, addressInput, balanceView>>

RequestOutcomes ==
  { Found(found) : found \in SUBSET (1..MaxArgs) } \cup { Unreadable, NotOk, Rejected }

NextUserSearch ==
  \/ \E call \in UserSearchCalls : CallUserSearch(call)
  \/ \E outcome \in RequestOutcomes : SdkSettles(outcome)
  \/ \E outcome \in RequestOutcomes : RestSettles(outcome)

SpecUserSearch == Init /\ [][NextUserSearch]_vars

\* C25: the REST request is made only after the SDK request, and only when
\* that failed; a call whose REST request succeeded returns its result and
\* throws nothing; a call throws only when both requests failed, and then an
\* error whose message begins with Failed to search users
C25_RestOnlyAfterSdkFailure ==
  LET u == userSearch
  IN  /\ u.pc # "idle" => u.requests[1] = "sdk"
      /\ Len(u.requests) > 1 =>
           /\ u.requests = << "sdk", "rest" >>
           /\ u.sdk # Undefined /\ RequestFailed(u.sdk[1])
      /\ u.sdk # Undefined /\ ~RequestFailed(u.sdk[1]) => u.requests = << "sdk" >>
      /\ u.rest # Undefined /\ ~RequestFailed(u.rest[1]) =>
           /\ u.pc = "returned"
           /\ u.thrown = Undefined
           /\ u.returned = Some(SearchResultOf(u.fn, u.args, u.rest[1].found))
      /\ u.thrown # Undefined =>
           /\ u.sdk # Undefined /\ RequestFailed(u.sdk[1])
           /\ u.rest # Undefined /\ RequestFailed(u.rest[1])
           /\ SubSeq(u.thrown[1], 1, 24) = "Failed to search users: "
           /\ u.returned = Undefined

\* the SDK request for two addresses was rejected and the REST request found
\* a user for the second only: the call returned, the first address not found
C25_Witness ==
  /\ userSearch.pc = "returned"
  /\ userSearch.fn = "searchUsersByAddresses"
  /\ userSearch.args = << "0xAAA", "0xbbb" >>
  /\ userSearch.sdk = Some(Rejected)
  /\ userSearch.rest = Some(Found({2}))
  /\ userSearch.returned[1].notFound = << "0xAAA" >>
  /\ userSearch.thrown = Undefined

-----------------------------------------------------------------------------
(* lib/r2: getTokenImageUrl *)

\* the most calls of getTokenImageUrl
MaxImageCalls == 2

PUBLIC_URL == "https://cdn.example"

Base64Alphabet == UpperChars \o LowerChars \o Digits \o "+/"
Punctuation == "-./:=?_"
PunctuationCodes == << 45, 46, 47, 58, 61, 63, 95 >>

IndexIn(c, chars) == CHOOSE i \in 1..Len(chars) : SubSeq(chars, i, i) = c

\* the byte of an ASCII character of a URL
CharCode(c) ==
  IF AllIn(c, UpperChars) THEN 64 + IndexIn(c, UpperChars)
  ELSE IF AllIn(c, LowerChars) THEN 96 + IndexIn(c, LowerChars)
  ELSE IF AllIn(c, Digits) THEN 47 + IndexIn(c, Digits)
  ELSE PunctuationCodes[IndexIn(c, Punctuation)]

Base64Char(i) == SubSeq(Base64Alphabet, i + 1, i + 1)

\* Buffer.from(s).toString('base64')
RECURSIVE Base64(_)
Base64(s) ==
  LET b(i) == CharCode(SubSeq(s, i, i))
  IN  IF Len(s) = 0 THEN ""
      ELSE IF Len(s) = 1
      THEN Base64Char(b(1) \div 4) \o Base64Char((b(1) % 4) * 16) \o "=="
      ELSE IF Len(s) = 2
      THEN Base64Char(b(1) \div 4) \o Base64Char((b(1) % 4) * 16 + b(2) \div 16)
             \o Base64Char((b(2) % 16) * 4) \o "="
      ELSE Base64Char(b(1) \div 4) \o Base64Char((b(1) % 4) * 16 + b(2) \div 16)
             \o Base64Char((b(2) % 16) * 4 + b(3) \div 64) \o Base64Char(b(3) % 64)
             \o Base64(SubSeq(s, 4, Len(s)))

\* .replace(/[+=\/]/g, '').replace(/[^a-zA-Z0-9]/g, '')
RECURSIVE OnlyAlphanumeric(_)
OnlyAlphanumeric(s) ==
  IF Len(s) = 0 THEN ""
  ELSE (IF AllIn(SubSeq(s, 1, 1), UpperChars \o LowerChars \o Digits)
        THEN SubSeq(s, 1, 1) ELSE "")
         \o OnlyAlphanumeric(SubSeq(s, 2, Len(s)))

\* s.split(sep)[0], for a separator of one character
RECURSIVE BeforeFirst(_, _)
BeforeFirst(s, sep) ==
  IF Len(s) = 0 \/ SubSeq(s, 1, 1) = sep THEN ""
  ELSE SubSeq(s, 1, 1) \o BeforeFirst(SubSeq(s, 2, Len(s)), sep)

\* s.split(sep).pop(), for a separator of one character
RECURSIVE AfterLast(_, _)
AfterLast(s, sep) ==
  IF Len(s) = 0 \/ SubSeq(s, Len(s), Len(s)) = sep THEN ""
  ELSE AfterLast(SubSeq(s, 1, Len(s) - 1), sep) \o SubSeq(s, Len(s), Len(s))

generateImageKey(originalUrl) ==
  LET cleanUrl  == BeforeFirst(originalUrl, "?")
      urlHash   == OnlyAlphanumeric(Base64(cleanUrl))
      extension == StrOr(Some(ToLowerCase(AfterLast(cleanUrl, "."))), "png")
  IN  "token-images/" \o urlHash \o "." \o extension

\* the content type is converted to PNG
Converted(contentType) ==
  \/ contentType = "image/webp"
  \/ contentType = "image/svg+xml"
  \/ SubSeq(contentType, 1, 6) # "image/"

\* key.replace(/\.(webp|svg|jpg|jpeg|gif)$/i, '.png')
PngKey(key) ==
  LET ends(ext) == /\ Len(key) >= Len(ext)
                   /\ ToLowerCase(SubSeq(key, Len(key) - Len(ext) + 1, Len(key))) = ext
      cut(ext)  == SubSeq(key, 1, Len(key) - Len(ext)) \o ".png"
  IN  IF ends(".webp") THEN cut(".webp")
      ELSE IF ends(".svg") THEN cut(".svg")
      ELSE IF ends(".jpg") THEN cut(".jpg")
      ELSE IF ends(".jpeg") THEN cut(".jpeg")
      ELSE IF ends(".gif") THEN cut(".gif")
      ELSE key

\* the original URLs asked for
ImageUrls ==
  { "", "https://a.io/t.png", "https://a.io/t.webp", "https://a.io/t.webp?v=2",
    "https://a.io/T.JPG", "https://a.io/t" }

\* the content types of the images fetched
ContentTypes == { "image/png", "image/jpeg", "image/webp", "image/svg+xml", "text/html" }

\* the call returns url
ImageReturn(url, uploaded) ==
  [r2 EXCEPT !.pc = "idle",
             !.results = Append(@, [originalUrl |-> r2.originalUrl, url |-> url,
                                    uploaded |-> uploaded])]

\* getTokenImageUrl(originalUrl), up to the existence check
CallGetTokenImageUrl(originalUrl) ==
  /\ r2.pc = "idle"
  /\ Len(r2.results) < MaxImageCalls
  /\ r2' = IF originalUrl = ""
           THEN [r2 EXCEPT !.results = Append(@, [originalUrl |-> "", url |-> "",
                                                  uploaded |-> FALSE])]
           ELSE [r2 EXCEPT !.pc = "head", !.originalUrl = originalUrl,
                           !.imageKey = generateImageKey(originalUrl),
                           !.contentType = "", !.finalKey = ""]
  /\ UNCHANGED <<pc, fid, bankrAddresses, response, thrown, aggregatedTokens, result,
                 shareImage, component, calls, search, userSearch, addressInput,
                 balanceView>>

\* the HeadObject request settles: answered by the bucket, or failed
HeadSettles(answered) ==
  /\ r2.pc = "head"
  /\ r2' = IF answered /\ r2.imageKey \in r2.bucket
           THEN ImageReturn(PUBLIC_URL \o "/" \o r2.imageKey, FALSE)
           ELSE [r2 EXCEPT !.pc = "fetch"]
  /\ UNCHANGED <<pc, fid, bankrAddresses, response, thrown, aggregatedTokens, result,
                 shareImage, component, calls, search, userSearch, addressInput,
                 balanceView>>

\* the fetch of the original image settles: failed, or read with a content
\* type; the key of the object is chosen
ImageFetchSettles(ok, contentType) ==
  /\ r2.pc = "fetch"
  /\ r2' = IF ~ok THEN ImageReturn(r2.originalUrl, FALSE)
           ELSE [r2 EXCEPT !.pc = "sharp", !.contentType = contentType]
  /\ UNCHANGED <<pc, fid, bankrAddresses, response, thrown, aggregatedTokens, result,
                 shareImage, component, calls, search, userSearch, addressInput,
                 balanceView>>

\* sharp settles: a failed conversion ends the upload, a failed optimisation
\* keeps the original bytes; a converted image gets a key ending in .png
SharpSettles(ok) ==
  /\ r2.pc = "sharp"
  /\ r2' = IF Converted(r2.contentType)
           THEN IF ok THEN [r2 EXCEPT !.pc = "put", !.finalKey = PngKey(r2.imageKey)]
                ELSE ImageReturn(r2.originalUrl, FALSE)
           ELSE [r2 EXCEPT !.pc = "put", !.finalKey = r2.imageKey]
  /\ UNCHANGED <<pc, fid, bankrAddresses, response, thrown, aggregatedTokens, result,
                 shareImage, component, calls, search, userSearch, addressInput,
                 balanceView>>

\* the PutObject request settles: the object is stored under finalKey and the
\* R2 URL of imageKey is returned, or the original URL is
PutSettles(ok) ==
  /\ r2.pc = "put"
  /\ r2' = IF ok
           THEN [ImageReturn(PUBLIC_URL \o "/" \o r2.imageKey, TRUE)
                   EXCEPT !.bucket = @ \cup { r2.finalKey }]
           ELSE ImageReturn(r2.originalUrl, FALSE)
  /\ UNCHANGED <<pc, fid, bankrAddresses, response, thrown, aggregatedTokens, result,
                 shareImage, component, calls, search, userSearch, addressInput,
                 balanceView>>

NextR2 ==
  \/ \E originalUrl \in ImageUrls : CallGetTokenImageUrl(originalUrl)
  \/ \E answered \in BOOLEAN : HeadSettles(answered)
  \/ \E ok \in BOOLEAN, contentType \in ContentTypes : ImageFetchSettles(ok, contentType)
  \/ \E ok \in BOOLEAN : SharpSettles(ok)
  \/ \E ok \in BOOLEAN : PutSettles(ok)

SpecR2 == Init /\ [][NextR2]_vars

\* C28: the R2 URL returned by a call that uploaded names a key under which
\* an object is stored
C28_ReturnedUrlNamesStoredObject ==
  \A k \in 1..Len(r2.results) :
    r2.results[k].uploaded =>
      \E key \in r2.bucket : r2.results[k].url = PUBLIC_URL \o "/" \o key

-----------------------------------------------------------------------------
(* components/AddressInput *)

\* the most calls of onAddressSubmit
MaxSubmits == 2

\* what is typed into the field: a username in two spellings and with
\* spaces around, an FID, a string of no accepted format, nothing
TypedValues == { "dwr", " DWR ", "194", "bad input!", "  ", "" }

\* inputs.some(input => input.toLowerCase() === value.toLowerCase())
AlreadyAdded(inputs, value) ==
  \E i \in 1..Len(inputs) : ToLowerCase(inputs[i]) = ToLowerCase(value)

\* inputs.some(input => input === value)
AlreadyAddedExactly(inputs, value) ==
  \E i \in 1..Len(inputs) : inputs[i] = value

\* handleInputChange: setInputValue(value); validateInput(value)
handleInputChange(value) ==
  /\ addressInput' = [addressInput EXCEPT
       !.inputValue = value,
       !.validation = IF Trim(value) = "" THEN Undefined
                      ELSE Some(validateAddressOrUsername(JsString(Trim(value))))]
  /\ UNCHANGED <<pc, fid, bankrAddresses, response, thrown, aggregatedTokens, result,
                 shareImage, component, calls, search, userSearch, r2, balanceView>>

\* the state after handleAddInput, with the test for an input already added
\* given by added
AfterAddInput(a, added(_, _)) ==
  LET trimmedValue == Trim(a.inputValue)
      validated    == validateAddressOrUsername(JsString(trimmedValue))
  IN  IF trimmedValue = "" THEN a
      ELSE IF ~validated.isValid THEN [a EXCEPT !.validation = Some(validated)]
      ELSE IF added(a.inputs, trimmedValue)
      THEN [a EXCEPT !.validation =
              Some(Validation(FALSE, "null", Some("Input already added")))]
      ELSE [a EXCEPT !.inputs = Append(@, trimmedValue),
                     !.inputValue = "",
                     !.validation = Undefined]

\* as handleAddInput, comparing with the inputs already added in the case
\* they were typed in
handleAddInputCaseSensitive ==
  /\ addressInput' = AfterAddInput(addressInput, AlreadyAddedExactly)
  /\ UNCHANGED <<pc, fid, bankrAddresses, response, thrown, aggregatedTokens, result,
                 shareImage, component, calls, search, userSearch, r2, balanceView>>

handleAddInput ==
  /\ addressInput' = AfterAddInput(addressInput, AlreadyAdded)
  /\ UNCHANGED <<pc, fid, bankrAddresses, response, thrown, aggregatedTokens, result,
                 shareImage, component, calls, search, userSearch, r2, balanceView>>

\* handleRemoveInput(index), for the index of a listed input
handleRemoveInput(index) ==
  /\ index \in 1..Len(addressInput.inputs)
  /\ addressInput' = [addressInput EXCEPT !.inputs =
       [i \in 1..(Len(@) - 1) |-> IF i < index THEN @[i] ELSE @[i + 1]]]
  /\ UNCHANGED <<pc, fid, bankrAddresses, response, thrown, aggregatedTokens, result,
                 shareImage, component, calls, search, userSearch, r2, balanceView>>

\* the state after handleSubmit: onAddressSubmit is called with the inputs
\* and the typed value when that is valid and new, else with the inputs when
\* there are any
AfterSubmit(a) ==
  LET typed == Trim(a.inputValue)
  IN  IF /\ typed # ""
         /\ validateAddressOrUsername(JsString(typed)).isValid
         /\ ~AlreadyAdded(a.inputs, typed)
      THEN [a EXCEPT !.submitted = Some(Append(a.inputs, typed)), !.submits = @ + 1]
      ELSE IF Len(a.inputs) > 0
      THEN [a EXCEPT !.submitted = Some(a.inputs), !.submits = @ + 1]
      ELSE a

handleSubmit ==
  /\ addressInput.submits < MaxSubmits
  /\ addressInput' = AfterSubmit(addressInput)
  /\ UNCHANGED <<pc, fid, bankrAddresses, response, thrown, aggregatedTokens, result,
                 shareImage, component, calls, search, userSearch, r2, balanceView>>

\* handleKeyPress for the Enter key
handleKeyPress ==
  /\ addressInput.submits < MaxSubmits
  /\ addressInput' =
       IF /\ Trim(addressInput.inputValue) # ""
          /\ addressInput.validation # Undefined
          /\ addressInput.validation[1].isValid
       THEN AfterAddInput(addressInput, AlreadyAdded)
       ELSE IF Len(addressInput.inputs) > 0 THEN AfterSubmit(addressInput)
       ELSE addressInput
  /\ UNCHANGED <<pc, fid, bankrAddresses, response, thrown, aggregatedTokens, result,
                 shareImage, component, calls, search, userSearch, r2, balanceView>>

NextAddressInput ==
  \/ \E value \in TypedValues : handleInputChange(value)
  \/ handleAddInput
  \/ \E index \in 1..Cardinality(TypedValues) : handleRemoveInput(index)
  \/ handleSubmit
  \/ handleKeyPress

SpecAddressInput == Init /\ [][NextAddressInput]_vars

\* every input of the list passes validateAddressOrUsername and no two are
\* equal ignoring case
ValidInputList(list) ==
  /\ \A i \in 1..Len(list) : validateAddressOrUsername(JsString(list[i])).isValid
  /\ \A i, j \in 1..Len(list) : i # j => ToLowerCase(list[i]) # ToLowerCase(list[j])

\* C29: the pending inputs are valid and distinct ignoring case; so is every
\* list passed to onAddressSubmit, which is never empty
C29_PendingInputsValidAndDistinct ==
  /\ ValidInputList(addressInput.inputs)
  /\ addressInput.submitted # Undefined =>
       /\ ValidInputList(addressInput.submitted[1])
       /\ Len(addressInput.submitted[1]) > 0

\* with 194 listed and DWR typed with spaces around, the form was submitted a
\* second time, with 194 and DWR
C29_Witness ==
  /\ addressInput.inputs = << "194" >>
  /\ addressInput.inputValue = " DWR "
  /\ addressInput.submitted = Some(<< "194", "DWR" >>)
  /\ addressInput.submits = 2

-----------------------------------------------------------------------------
(* components/TokenBalances: changing props *)

\* the most runs of the effect
MaxPropChanges == 3

\* the accounts shown
ViewFids == { 3, 194 }

\* what a request to /api/balance comes to
BalanceReplies == { "tokens", "error", "notOk" }

\* the component renders with a new fid: the effect runs fetchBalances up to
\* its await, with no cleanup of the requests before
RenderWithFid(f) ==
  /\ balanceView.effects < MaxPropChanges
  /\ f # balanceView.fid
  /\ balanceView' = [balanceView EXCEPT
       !.fid = f,
       !.effects = @ + 1,
       !.inFlight = @ \cup { [fid |-> f, effect |-> balanceView.effects + 1] },
       !.loading = TRUE,
       !.error = Undefined]
  /\ UNCHANGED <<pc, fid, bankrAddresses, response, thrown, aggregatedTokens, result,
                 shareImage, component, calls, search, userSearch, r2, addressInput>>

\* the request settles with reply: the rest of fetchBalances
BalanceRequestSettles(request, reply) ==
  /\ request \in balanceView.inFlight
  /\ balanceView' =
       LET settled == [balanceView EXCEPT !.inFlight = @ \ { request }, !.loading = FALSE]
       IN  CASE reply = "tokens" ->
                  [settled EXCEPT !.balanceData =
                     Some([fid |-> request.fid, tokens |-> << "ETH" >>, error |-> Undefined])]
             [] reply = "error" ->
                  [settled EXCEPT
                     !.balanceData = Some([fid |-> request.fid, tokens |-> << >>,
                                           error |-> Some("Failed to fetch token balances")]),
                     !.error = Some("Failed to fetch token balances"),
                     !.errorOf = request.effect]
             [] reply = "notOk" ->
                  [settled EXCEPT !.error = Some("HTTP 500: Internal Server Error"),
                                  !.errorOf = request.effect]
  /\ UNCHANGED <<pc, fid, bankrAddresses, response, thrown, aggregatedTokens, result,
                 shareImage, component, calls, search, userSearch, r2, addressInput>>

NextBalanceView ==
  \/ \E f \in ViewFids : RenderWithFid(f)
  \/ \E request \in balanceView.inFlight, reply \in BalanceReplies :
       BalanceRequestSettles(request, reply)

SpecBalanceView == Init /\ [][NextBalanceView]_vars

\* C30: once every request has settled, the balance data held is that of the
\* fid of the latest props and the error held is that of the latest request
C30_LatestPropsWin ==
  balanceView.effects > 0 /\ balanceView.inFlight = {} =>
    /\ balanceView.balanceData # Undefined =>
         balanceView.balanceData[1].fid = balanceView.fid
    /\ balanceView.error # Undefined => balanceView.errorOf = balanceView.effects

====
